---- MODULE Spec2Model ----
(***************************************************************************)
(* con-utils: the command-line parser of packages/con-cli.                 *)
(*                                                                         *)
(* Strings are sequences of one-character strings, so that parseFlag,      *)
(* toLowerCase, indexOf and substring are computed character by character. *)
(* JavaScript values are tagged records of one shape (Val), so that values *)
(* of different JavaScript types can be compared.                          *)
(***************************************************************************)
EXTENDS Integers, Sequences, FiniteSets, TLC

(***************************************************************************)
(* JavaScript strings                                                      *)
(***************************************************************************)
UpperLetters == <<"A","B","C","D","E","F","G","H","I","J","K","L","M",
                  "N","O","P","Q","R","S","T","U","V","W","X","Y","Z">>

LowerLetters == <<"a","b","c","d","e","f","g","h","i","j","k","l","m",
                  "n","o","p","q","r","s","t","u","v","w","x","y","z">>

Digits == <<"0","1","2","3","4","5","6","7","8","9">>

\* String.prototype.toLowerCase on one character
toLowerChar(c) ==
    IF \E i \in 1..Len(UpperLetters) : UpperLetters[i] = c
    THEN LowerLetters[CHOOSE i \in 1..Len(UpperLetters) : UpperLetters[i] = c]
    ELSE c

\* String.prototype.toLowerCase
toLowerCase(s) == [i \in 1..Len(s) |-> toLowerChar(s[i])]

\* String.prototype.indexOf(c): 0-based index of the first c, -1 when absent
indexOf(s, c) ==
    IF \E i \in 1..Len(s) : s[i] = c
    THEN (CHOOSE i \in 1..Len(s) : s[i] = c /\ \A j \in 1..(i - 1) : s[j] # c) - 1
    ELSE -1

\* String.prototype.substring(from, to), 0-based, to exclusive
substring(s, from, to) == SubSeq(s, from + 1, to)

(***************************************************************************)
(* JavaScript values: null, undefined (a missing Map entry), strings,      *)
(* numbers (integers and NaN) and booleans.                                *)
(***************************************************************************)
VNull      == [t |-> "null",      s |-> <<>>, n |-> 0, b |-> FALSE]
VUndefined == [t |-> "undefined", s |-> <<>>, n |-> 0, b |-> FALSE]
VNaN       == [t |-> "nan",       s |-> <<>>, n |-> 0, b |-> FALSE]
VStr(str)  == [t |-> "str",       s |-> str,  n |-> 0, b |-> FALSE]
VNum(num)  == [t |-> "num",       s |-> <<>>, n |-> num, b |-> FALSE]
VBool(bb)  == [t |-> "bool",      s |-> <<>>, n |-> 0, b |-> bb]

\* ToBoolean: the truthiness of a value in a condition
Truthy(v) ==
    CASE v.t = "str"  -> Len(v.s) > 0
      [] v.t = "num"  -> v.n # 0
      [] v.t = "bool" -> v.b
      [] OTHER        -> FALSE

\* a ?? b
Nullish(v) == v.t \in {"null", "undefined"}

IsDigit(c) == \E i \in 1..Len(Digits) : Digits[i] = c

DigitValue(c) == (CHOOSE i \in 1..Len(Digits) : Digits[i] = c) - 1

IsDigits(s) == Len(s) > 0 /\ \A i \in 1..Len(s) : IsDigit(s[i])

RECURSIVE DigitsValue(_)
DigitsValue(s) ==
    IF Len(s) = 0 THEN 0
    ELSE 10 * DigitsValue(SubSeq(s, 1, Len(s) - 1)) + DigitValue(s[Len(s)])

\* Number(input) for strings of signs, digits and other characters: the
\* empty string is 0, an optionally signed run of digits is its value and
\* every other string is NaN.
Number(s) ==
    CASE Len(s) = 0 -> VNum(0)
      [] IsDigits(s) -> VNum(DigitsValue(s))
      [] Len(s) > 1 /\ s[1] = "-" /\ IsDigits(Tail(s)) -> VNum(0 - DigitsValue(Tail(s)))
      [] Len(s) > 1 /\ s[1] = "+" /\ IsDigits(Tail(s)) -> VNum(DigitsValue(Tail(s)))
      [] OTHER -> VNaN

\* The longest prefix of s made of digits
RECURSIVE DigitPrefix(_)
DigitPrefix(s) ==
    IF Len(s) = 0 \/ ~IsDigit(s[1]) THEN <<>>
    ELSE <<s[1]>> \o DigitPrefix(Tail(s))

\* parseInt(input, 10): an optional sign and the longest run of digits that
\* follows it, NaN when there is no digit there.
parseInt(s) ==
    LET neg  == Len(s) > 0 /\ s[1] = "-"
        sign == Len(s) > 0 /\ s[1] \in {"-", "+"}
        body == DigitPrefix(IF sign THEN Tail(s) ELSE s)
    IN  IF Len(body) = 0 THEN VNaN
        ELSE VNum(IF neg THEN 0 - DigitsValue(body) ELSE DigitsValue(body))

(***************************************************************************)
(* Value type validators (value-type.ts)                                   *)
(***************************************************************************)
S_true  == <<"t","r","u","e">>
S_false == <<"f","a","l","s","e">>

VALID_BOOLEAN_TYPES == {S_false, S_true, <<"0">>, <<"1">>}

BooleanTypeValidator == [name |-> "bool",   values |-> <<>>, description |-> <<>>]
NumberTypeValidator  == [name |-> "number", values |-> <<>>, description |-> <<>>]
IntegerTypeValidator == [name |-> "int",    values |-> <<>>, description |-> <<>>]
StringTypeValidator  == [name |-> "string", values |-> <<>>, description |-> <<>>]

\* new Set(list): the elements of the list in the order of their first
\* occurrence
RECURSIVE SetOf(_)
SetOf(list) ==
    IF Len(list) = 0 THEN <<>>
    ELSE LET front == SetOf(SubSeq(list, 1, Len(list) - 1))
             last  == list[Len(list)]
         IN  IF \E i \in 1..Len(front) : front[i] = last THEN front
             ELSE Append(front, last)

\* A constructor that keeps the values as they were declared
StringEnumTypeValidator_asDeclared(values) ==
    [name |-> "enum", values |-> SetOf(values), description |-> values]

\* new StringEnumTypeValidator(values), values not empty: the allowed
\* values are the lower-cased values, and the description lists the values
\* as they were declared
StringEnumTypeValidator(values) ==
    [name |-> "enum",
     values |-> SetOf([i \in 1..Len(values) |-> toLowerCase(values[i])]),
     description |-> values]

\* validator.isValid(input)
isValid(validator, input) ==
    CASE validator.name = "bool"   -> toLowerCase(input) \in VALID_BOOLEAN_TYPES
      [] validator.name = "number" -> Number(input).t # "nan"
      [] validator.name = "int"    -> Number(input).t = "num"
      [] validator.name = "string" -> TRUE
      [] validator.name = "enum" ->
            \E i \in 1..Len(validator.values) : validator.values[i] = toLowerCase(input)
      [] OTHER -> FALSE

\* validator.coerce(input)
coerce(validator, input) ==
    CASE validator.name = "bool" ->
            IF toLowerCase(input) = S_false \/ toLowerCase(input) = <<"0">>
            THEN VBool(FALSE) ELSE VBool(Len(input) > 0)
      [] validator.name = "number" -> Number(input)
      [] validator.name = "int"    -> parseInt(input)
      [] validator.name = "string" -> VStr(input)
      [] validator.name = "enum" ->
            IF ~isValid(validator, input) THEN VStr(validator.values[1]) ELSE VStr(input)
      [] OTHER -> VUndefined

(***************************************************************************)
(* Argument and flag definitions (arguments.ts, flags.ts)                  *)
(***************************************************************************)
\* An option that was not given (undefined): long and short are only ever
\* tested for truthiness, where undefined and the empty string agree.
NoString == <<>>

NoCommand == "null"

NoFlag == "null"

\* One call of validator.isValid(input), with what it returned
IsValidCall(validator, input) ==
    [op |-> "isValid", validator |-> validator, input |-> input,
     returned |-> VBool(input.t = "str" /\ isValid(validator, input.s))]

\* One call of validator.coerce(input)
CoerceCall(validator, input) ==
    [op |-> "coerce", validator |-> validator, input |-> input,
     returned |-> IF input.t = "str" THEN coerce(validator, input.s) ELSE VUndefined]

\* new ArgumentLike(name, {validator, defaultValue})
ArgumentLike(name, validator, defaultValue) ==
    [name |-> toLowerCase(name), validator |-> validator, defaultValue |-> defaultValue]

\* ArgumentLike.isRequired
isRequired(def) == def.defaultValue.t = "null"

\* ArgumentLike.enforce(value): the coerced value, or a thrown Error
enforce(def, value) ==
    IF Nullish(value)
    THEN IF def.defaultValue.t = "null"
         THEN [threw |-> TRUE, value |-> VUndefined, calls |-> <<>>]
         ELSE [threw |-> FALSE, value |-> def.defaultValue, calls |-> <<>>]
    ELSE IF ~isValid(def.validator, value.s)
         THEN [threw |-> TRUE, value |-> VUndefined,
               calls |-> <<IsValidCall(def.validator, value)>>]
         ELSE [threw |-> FALSE, value |-> coerce(def.validator, value.s),
               calls |-> <<IsValidCall(def.validator, value), CoerceCall(def.validator, value)>>]

\* new ValueFlag(name, {validator, defaultValue, long, short})
ValueFlag(name, validator, defaultValue, long, short) ==
    [name |-> toLowerCase(name), validator |-> validator, defaultValue |-> defaultValue,
     long |-> toLowerCase(long), short |-> toLowerCase(short), isValueFlag |-> TRUE]

\* new Flag(name, {long, short})
Flag(name, long, short) ==
    [ValueFlag(name, BooleanTypeValidator, VBool(FALSE), long, short)
        EXCEPT !.isValueFlag = FALSE]

\* ValueFlag.isValueBased
isValueBased(flag) == flag.isValueFlag

(***************************************************************************)
(* The command tree.  tree.cmds maps a command to its fields, tree.heap    *)
(* maps a flag object (compared by reference) to its fields.               *)
(***************************************************************************)
EmptyMap == [k \in {} |-> NoFlag]

\* new FlagsGroup(base)
FlagsGroup(base) == [flags |-> {}, map |-> EmptyMap, base |-> base]

\* Map.prototype.set
MapSet(map, key, value) == (key :> value) @@ map

\* FlagsGroup.setLongInternal / setShortInternal / setGeneralInternal
setLongInternal(group, key, flag) == [group EXCEPT !.map = MapSet(@, <<"long", key>>, flag)]

setShortInternal(group, key, flag) == [group EXCEPT !.map = MapSet(@, <<"short", key>>, flag)]

setGeneralInternal(group, key, flag) == [group EXCEPT !.map = MapSet(@, <<"flag", key>>, flag)]

\* FlagsGroup.add(flag), where obj holds the fields of the flag object
FlagsGroup_add(group, flag, obj) ==
    LET g1 == [group EXCEPT !.flags = @ \cup {flag}]
        g2 == setGeneralInternal(g1, obj.name, flag)
        g3 == IF Len(obj.long) > 0 THEN setLongInternal(g2, obj.long, flag) ELSE g2
    IN  IF Len(obj.short) > 0 THEN setShortInternal(g3, obj.short, flag) ELSE g3

\* FlagsGroup.addShortAlias(flag, short)
FlagsGroup_addShortAlias(group, flag, obj, short) ==
    setShortInternal(setGeneralInternal([group EXCEPT !.flags = @ \cup {flag}], obj.name, flag),
                     short, flag)

\* FlagsGroup.addLongAlias(flag, long)
FlagsGroup_addLongAlias(group, flag, obj, long) ==
    setLongInternal(setGeneralInternal([group EXCEPT !.flags = @ \cup {flag}], obj.name, flag),
                    long, flag)

\* FlagsGroup.hasOwnFlag
hasOwnFlag(t, cmd, flag) == flag \in t.cmds[cmd].flags.flags

\* A lookup that asks the base scope first and the scope's own map last
RECURSIVE lookup_baseFirst(_, _, _, _)
lookup_baseFirst(t, cmd, ns, key) ==
    LET group == t.cmds[cmd].flags
        inherited == IF group.base = NoCommand THEN NoFlag
                     ELSE lookup_baseFirst(t, group.base, ns, key)
    IN  IF inherited # NoFlag THEN inherited
        ELSE IF <<ns, key>> \in DOMAIN group.map THEN group.map[<<ns, key>>]
        ELSE NoFlag

\* FlagsGroup.getLong / getShort / getByName: the scope's own map first,
\* then the base scope, which is the scope of the parent command
RECURSIVE lookup(_, _, _, _)
lookup(t, cmd, ns, key) ==
    LET group == t.cmds[cmd].flags
    IN  IF <<ns, key>> \in DOMAIN group.map THEN group.map[<<ns, key>>]
        ELSE IF group.base = NoCommand THEN NoFlag
        ELSE lookup(t, group.base, ns, key)

getLong(t, cmd, key) == lookup(t, cmd, "long", key)

getShort(t, cmd, key) == lookup(t, cmd, "short", key)

getByName(t, cmd, key) == lookup(t, cmd, "flag", key)

S_help == <<"h","e","l","p">>

\* The identity of the help flag object that a command constructs
HelpFlagOf(id) == "help@" \o id

EmptyTree == [cmds |-> [k \in {} |-> 0], heap |-> [k \in {} |-> 0]]

\* Allocation of a flag object
NewFlagObject(t, flag, obj) == [t EXCEPT !.heap = (flag :> obj) @@ @]

\* Command constructor (with the fields of its two subclasses): the name is
\* lower-cased, the scope is chained to the parent's scope and the help flag
\* is registered under long "help", short "?" and the short alias "h".
Command(t, id, kind, name, parent, argTypes) ==
    LET help == Flag(S_help, S_help, <<"?">>)
        g0   == FlagsGroup(parent)
        g1   == FlagsGroup_add(g0, HelpFlagOf(id), help)
        g2   == FlagsGroup_addShortAlias(g1, HelpFlagOf(id), help, <<"h">>)
        node == [kind |-> kind, name |-> toLowerCase(name), parent |-> parent,
                 uniqueHelpFlag |-> HelpFlagOf(id), flags |-> g2,
                 argumentsTypes |-> argTypes, action |-> FALSE,
                 subcommands |-> [k \in {} |-> NoCommand]]
    IN  [cmds |-> (id :> node) @@ t.cmds,
         heap |-> (HelpFlagOf(id) :> help) @@ t.heap]

\* GroupCommand.create(name, description, null)
GroupCommand_create(t, id, name) == Command(t, id, "group", name, NoCommand, <<>>)

\* GroupCommand.createGroup(name, description)
createGroup(t, parent, id, name) ==
    LET t1 == Command(t, id, "group", name, parent, <<>>)
    IN  [t1 EXCEPT !.cmds[parent].subcommands = MapSet(@, name, id)]

\* GroupCommand.createAction(name, description, args)
createAction(t, parent, id, name, args) ==
    LET t1 == Command(t, id, "action", name, parent, args)
    IN  [t1 EXCEPT !.cmds[parent].subcommands = MapSet(@, name, id)]

\* command.action = handler
setAction(t, id) == [t EXCEPT !.cmds[id].action = TRUE]

\* command.flags.add(new ...Flag(...)): allocation and registration
addFlag(t, cmd, flag, obj) ==
    [NewFlagObject(t, flag, obj) EXCEPT !.cmds[cmd].flags = FlagsGroup_add(@, flag, obj)]

\* command.flags.addLongAlias(flag, long)
addLongAlias(t, cmd, flag, long) ==
    [t EXCEPT !.cmds[cmd].flags = FlagsGroup_addLongAlias(@, flag, t.heap[flag], long)]

\* command.flags.addShortAlias(flag, short)
addShortAlias(t, cmd, flag, short) ==
    [t EXCEPT !.cmds[cmd].flags = FlagsGroup_addShortAlias(@, flag, t.heap[flag], short)]

(***************************************************************************)
(* CommandsParser (commands-parser.ts)                                     *)
(***************************************************************************)
NoParse == [isFlag |-> FALSE, name |-> <<>>, isLong |-> FALSE, value |-> VNull]

\* parseFlag without the branch that takes the characters after a short name
\* as the value
parseFlag_noInlineValue(argument) ==
    IF Len(argument) < 2 \/ argument[1] # "-" THEN NoParse
    ELSE LET isLongBit     == argument[2] = "-"
             hasValueIndex == indexOf(argument, "=")
             hasValueBit   == hasValueIndex # -1
             value0 == IF hasValueBit
                       THEN VStr(substring(argument, hasValueIndex + 1, Len(argument)))
                       ELSE VNull
             name   == IF isLongBit
                       THEN substring(argument, 2,
                                      IF hasValueBit THEN hasValueIndex ELSE Len(argument))
                       ELSE <<argument[2]>>
         IN  [isFlag |-> TRUE, name |-> toLowerCase(name), isLong |-> isLongBit,
              value |-> value0]

\* CommandsParser.parseFlag(argument): NoParse stands for null
parseFlag(argument) ==
    IF Len(argument) < 2 \/ argument[1] # "-" THEN NoParse
    ELSE LET isLongBit     == argument[2] = "-"
             hasValueIndex == indexOf(argument, "=")
             hasValueBit   == hasValueIndex # -1
             value0 == IF hasValueBit
                       THEN VStr(substring(argument, hasValueIndex + 1, Len(argument)))
                       ELSE VNull
             name   == IF isLongBit
                       THEN substring(argument, 2,
                                      IF hasValueBit THEN hasValueIndex ELSE Len(argument))
                       ELSE <<argument[2]>>
             value  == IF ~isLongBit /\ ~Truthy(value0) /\ Len(argument) > 2
                       THEN VStr(substring(argument, 2, Len(argument)))
                       ELSE value0
         IN  [isFlag |-> TRUE, name |-> toLowerCase(name), isLong |-> isLongBit,
              value |-> value]

NoError == "null"

\* resolveFlag that stores the raw string instead of the coerced value
resolveFlag_noCoerce(t, cmd, flag, next) ==
    LET FLAG_TYPE == IF flag.isLong THEN getLong(t, cmd, flag.name)
                     ELSE getShort(t, cmd, flag.name)
        failure(e) == [ok |-> FALSE, flag |-> NoFlag, value |-> VNull,
                       nextValueUsed |-> FALSE, error |-> e, calls |-> <<>>]
    IN  IF FLAG_TYPE = NoFlag THEN failure(NoError)
        ELSE LET obj == t.heap[FLAG_TYPE]
                 nextValueUsed == isValueBased(obj) /\ flag.value.t = "null"
                 value == IF flag.value.t = "null" THEN next ELSE flag.value
             IN  IF isValueBased(obj)
                 THEN IF value.t = "null"
                      THEN IF Truthy(obj.defaultValue)
                           THEN [ok |-> TRUE, flag |-> FLAG_TYPE, value |-> VNull,
                                 nextValueUsed |-> nextValueUsed, error |-> NoError,
                                 calls |-> <<>>]
                           ELSE failure("Flag with no default value, requires value")
                      ELSE IF ~isValid(obj.validator, value.s)
                           THEN [failure("Incorrect type passed as value for flag")
                                    EXCEPT !.calls = <<IsValidCall(obj.validator, value)>>]
                           ELSE [ok |-> TRUE, flag |-> FLAG_TYPE, value |-> value,
                                 nextValueUsed |-> nextValueUsed, error |-> NoError,
                                 calls |-> <<IsValidCall(obj.validator, value)>>]
                 ELSE IF Truthy(flag.value)
                      THEN failure("Syntax error, this flag doesn't supports values")
                      ELSE [ok |-> TRUE, flag |-> FLAG_TYPE, value |-> VBool(TRUE),
                            nextValueUsed |-> nextValueUsed, error |-> NoError,
                            calls |-> <<>>]

\* resolveFlag that reports a name no scope knows as an error
resolveFlag_unknownFatal(t, cmd, flag, next) ==
    LET result == resolveFlag_noCoerce(t, cmd, flag, next)
    IN  IF ~result.ok /\ result.error = NoError
        THEN [result EXCEPT !.error = "Failed to resolve tag with name"]
        ELSE result

\* resolveFlag that takes a boolean flag as present whatever inline value
\* its token has
resolveFlag_valueIgnored(t, cmd, flag, next) ==
    LET FLAG_TYPE == IF flag.isLong THEN getLong(t, cmd, flag.name)
                     ELSE getShort(t, cmd, flag.name)
    IN  IF FLAG_TYPE # NoFlag /\ ~isValueBased(t.heap[FLAG_TYPE])
        THEN [ok |-> TRUE, flag |-> FLAG_TYPE, value |-> VBool(TRUE),
              nextValueUsed |-> FALSE, error |-> NoError, calls |-> <<>>]
        ELSE resolveFlag_noCoerce(t, cmd, flag, next)

\* resolveFlag that coerces the value of a value flag without asking the
\* validator whether it is valid
resolveFlag_unchecked(t, cmd, flag, next) ==
    LET checked == resolveFlag_noCoerce(t, cmd, flag, next)
        FLAG_TYPE == IF flag.isLong THEN getLong(t, cmd, flag.name)
                     ELSE getShort(t, cmd, flag.name)
        value == IF flag.value.t = "null" THEN next ELSE flag.value
    IN  IF Len(checked.calls) = 0 THEN checked
        ELSE [ok |-> TRUE, flag |-> FLAG_TYPE,
              value |-> coerce(t.heap[FLAG_TYPE].validator, value.s),
              nextValueUsed |-> flag.value.t = "null", error |-> NoError,
              calls |-> <<CoerceCall(t.heap[FLAG_TYPE].validator, value)>>]

\* CommandsParser.resolveFlag(group, flag, next), group being the scope of
\* command cmd.  ok = FALSE stands for the null result, and error is then
\* the value given to setLastError.
resolveFlag(t, cmd, flag, next) ==
    LET FLAG_TYPE == IF flag.isLong THEN getLong(t, cmd, flag.name)
                     ELSE getShort(t, cmd, flag.name)
        failure(e) == [ok |-> FALSE, flag |-> NoFlag, value |-> VNull,
                       nextValueUsed |-> FALSE, error |-> e, calls |-> <<>>]
    IN  IF FLAG_TYPE = NoFlag THEN failure(NoError)
        ELSE LET obj == t.heap[FLAG_TYPE]
                 nextValueUsed == isValueBased(obj) /\ flag.value.t = "null"
                 value == IF flag.value.t = "null" THEN next ELSE flag.value
             IN  IF isValueBased(obj)
                 THEN IF value.t = "null"
                      THEN IF Truthy(obj.defaultValue)
                           THEN [ok |-> TRUE, flag |-> FLAG_TYPE, value |-> VNull,
                                 nextValueUsed |-> nextValueUsed, error |-> NoError,
                                 calls |-> <<>>]
                           ELSE failure("Flag with no default value, requires value")
                      ELSE IF ~isValid(obj.validator, value.s)
                           THEN [failure("Incorrect type passed as value for flag")
                                    EXCEPT !.calls = <<IsValidCall(obj.validator, value)>>]
                           ELSE [ok |-> TRUE, flag |-> FLAG_TYPE,
                                 value |-> coerce(obj.validator, value.s),
                                 nextValueUsed |-> nextValueUsed, error |-> NoError,
                                 calls |-> <<IsValidCall(obj.validator, value),
                                             CoerceCall(obj.validator, value)>>]
                 ELSE IF Truthy(flag.value)
                      THEN failure("Syntax error, this flag doesn't supports values")
                      ELSE [ok |-> TRUE, flag |-> FLAG_TYPE, value |-> VBool(TRUE),
                            nextValueUsed |-> nextValueUsed, error |-> NoError,
                            calls |-> <<>>]

\* new Set(map.keys())
Keys(map) == DOMAIN map

EmptyFlags == [k \in {} |-> VNull]

NoOutcome ==
    [kind |-> "none", command |-> NoCommand, args |-> <<>>, flags |-> EmptyFlags,
     message |-> "", index |-> 0, hasSet |-> FALSE, set |-> {}]

\* new ParseResult(command, args, flags)
ParseResult(cmd, args, flags) ==
    [NoOutcome EXCEPT !.kind = "result", !.command = cmd, !.args = args, !.flags = flags]

\* new ParserError(command, message, argv, index, flags): the flags are a set
\* or, when the argument is left out, null (hasSet = FALSE)
ParserError(cmd, message, idx, hasSet, set) ==
    [NoOutcome EXCEPT !.kind = "error", !.command = cmd, !.message = message,
                      !.index = idx, !.hasSet = hasSet, !.set = set]

\* An Error that is not a ParserError
OtherError(cmd) == [NoOutcome EXCEPT !.kind = "exception", !.command = cmd]

\* getValue that falls back to the default of a boolean flag, false, for
\* every flag
getValue_falseDefault(t, result, flag) ==
    LET got == IF flag \in DOMAIN result.flags THEN result.flags[flag] ELSE VUndefined
    IN  IF Nullish(got) THEN VBool(FALSE) ELSE got

\* ParseResult.getValue(flag)
getValue(t, result, flag) ==
    LET got == IF flag \in DOMAIN result.flags THEN result.flags[flag] ELSE VUndefined
    IN  IF Nullish(got) THEN t.heap[flag].defaultValue ELSE got

\* ParseResult.getExecutable() is not null: both command classes have an
\* action property, which is a function once a handler is set
getExecutable(t, result) == t.cmds[result.command].action

(***************************************************************************)
(* State                                                                   *)
(***************************************************************************)
VARIABLES
    tree,        \* the command tree and the flag objects, built before the parse
    entry,       \* "parse": new CommandsParser(argv, 0).parse(root); "run": CommandLine.run
    argv,        \* CommandsParser.argv
    index,       \* CommandsParser.index, 0-based
    lastError,   \* CommandsParser.lastError
    pc,          \* the position of the parser
    command,     \* the command of the innermost parse call
    stack,       \* the suspended parseGroupCommand calls: command and RESULT.flags
    RESULT,      \* RESULT.flags of the innermost parseGroupCommand call
    positionals, \* positionals of parseActionCommand
    FLAGS_MAP,   \* FLAGS_MAP of parseActionCommand
    outcome,     \* the ParseResult returned or the error thrown
    console,     \* what CommandLine.run printed, invoked and threw
    hist,        \* history: what the parser made of each token of argv
    previous,    \* history: the outcome of an earlier parse of the same tokens
    calls,       \* history: the calls of isValid and coerce, in the order made
    enum,        \* a StringEnumTypeValidator constructed apart from any parser
    target,      \* EventEmitter.target: the list of listeners of each event type
    bodies,      \* what each listener function does with the emitter when it is called
    loop,        \* the dispatch running or just returned: its type, payload and counter i
    invoked,     \* history: the listeners called by the dispatch since the last add or remove
    registered,  \* history: the listeners added for each type and not removed since
    channel,     \* TaskConcurrencyChannel: its stack of tracking promises and its concurrency
    tasks,       \* the tasks pushed, in order: the state of each and of its tracking promise
    pushing,     \* the call of push: returned, or awaiting Promise.any of a stack
    awaiter      \* the promise of getAwaiter: not asked for, waiting, or resolved

vars == <<tree, entry, argv, index, lastError, pc, command, stack, RESULT,
          positionals, FLAGS_MAP, outcome, console, hist, previous, calls, enum,
          target, bodies, loop, invoked, registered, channel, tasks, pushing, awaiter>>

\* The variables of an EventEmitter and of its listeners
emitterVars == <<target, bodies, loop, invoked, registered>>

\* The variables of a TaskConcurrencyChannel and of its callers
channelVars == <<channel, tasks, pushing, awaiter>>

\* What is not part of a parser or of a command tree
others == <<enum, emitterVars, channelVars>>

NoValidator == [name |-> "none", values |-> <<>>, description |-> <<>>]

\* Object.create(null): no event type has a list
NoTarget == [type \in {} |-> <<>>]

NoBodies == [listener \in {} |-> 0]

\* No dispatch is running
NoLoop ==
    [active |-> FALSE, type |-> "none", payload |-> "none", i |-> 0, began |-> <<>>,
     atStart |-> {}]

\* No emitter is in use
EmitterIdle ==
    /\ target = NoTarget
    /\ bodies = NoBodies
    /\ loop = NoLoop
    /\ invoked = <<>>
    /\ registered = [type \in {} |-> {}]

\* new TaskConcurrencyChannel(maxConcurrency)
TaskConcurrencyChannel(maxConcurrency) == [stack |-> {}, concurrency |-> maxConcurrency]

\* push has returned, or was never called
Returned == [state |-> "returned", any |-> {}]

NoAwaiter == [state |-> "none", all |-> {}, pushed |-> 0, stack |-> {}, pushedThen |-> 0]

\* No channel is in use
ChannelIdle ==
    /\ channel = TaskConcurrencyChannel(0)
    /\ tasks = <<>>
    /\ pushing = Returned
    /\ awaiter = NoAwaiter

\* Nothing but the parser and the command tree has been constructed
OthersIdle ==
    /\ enum = NoValidator
    /\ EmitterIdle
    /\ ChannelIdle

Root == "root"

\* CommandLine.run starts the parser at index 2
StartIndex(e) == IF e = "run" THEN 2 ELSE 0

S_node == <<"n","o","d","e">>

S_script == <<"c","l","i",".","j","s">>

\* process.argv starts with the interpreter and the script
ArgvPrefix(e) == IF e = "run" THEN <<S_node, S_script>> ELSE <<>>

\* The tokens of argv from the start index on
Tokens == SubSeq(argv, StartIndex(entry) + 1, Len(argv))

NoConsole ==
    [info |-> NoCommand, errorMessage |-> FALSE, errorHelp |-> NoCommand,
     invoked |-> NoCommand, threw |-> FALSE]

NoRole == [role |-> "none", flag |-> NoFlag, value |-> VNull, command |-> NoCommand]

\* CommandsParser.getArgument(relative)
getArgument(relative) ==
    LET i == index + relative
    IN  IF i >= 0 /\ i < Len(argv) THEN VStr(argv[i + 1]) ELSE VNull

\* Where control goes when the outermost parse call returns or throws
Finish == IF entry = "run" THEN "run" ELSE "done"

AfterReturn == IF stack = <<>> THEN Finish ELSE "return"

AfterThrow == IF stack = <<>> THEN Finish ELSE "throw"

\* The history entry of the token at the 0-based position i
Mark(h, i, role, flag, value) ==
    IF i >= 0 /\ i < Len(argv)
    THEN [h EXCEPT ![i + 1] = [role |-> role, flag |-> flag, value |-> value,
                               command |-> command]]
    ELSE h

\* No earlier parse
NoPrevious == [done |-> FALSE, fresh |-> FALSE, outcome |-> NoOutcome]

\* A parser that takes over the cursor and the last error of the parser
\* before it
CommandsParser_sharedCursor(start) == [index |-> index, lastError |-> lastError]

\* new CommandsParser(argv, start): the fields of the new parser
CommandsParser(start) == [index |-> start, lastError |-> NoError]

\* The state after construction of the parser over a tree and a token array
InitWith(trees, entries, tokens) ==
    /\ tree \in trees
    /\ entry \in entries
    /\ argv \in {ArgvPrefix(entry) \o toks : toks \in tokens}
    /\ index = StartIndex(entry)
    /\ lastError = NoError
    /\ pc = "parse"
    /\ command = Root
    /\ stack = <<>>
    /\ RESULT = EmptyFlags
    /\ positionals = <<>>
    /\ FLAGS_MAP = EmptyFlags
    /\ outcome = NoOutcome
    /\ console = NoConsole
    /\ hist = [i \in 1..Len(argv) |-> NoRole]
    /\ previous = NoPrevious
    /\ calls = <<>>
    /\ OthersIdle

\* The variables of a parser and of its command tree
parserVars == <<tree, entry, argv, index, lastError, pc, command, stack, RESULT,
                positionals, FLAGS_MAP, outcome, console, hist, previous>>

\* No command tree has been built and no parser runs
ParserIdle ==
    /\ tree = EmptyTree
    /\ entry = "parse"
    /\ argv = <<>>
    /\ index = 0
    /\ lastError = NoError
    /\ pc = "idle"
    /\ command = NoCommand
    /\ stack = <<>>
    /\ RESULT = EmptyFlags
    /\ positionals = <<>>
    /\ FLAGS_MAP = EmptyFlags
    /\ outcome = NoOutcome
    /\ console = NoConsole
    /\ hist = <<>>
    /\ previous = NoPrevious
    /\ calls = <<>>

\* A group that returns an empty result when it finds no argument, handler
\* or not
NoArgument_neverThrows(t, cmd, idx) == ParseResult(cmd, <<>>, EmptyFlags)

\* parseGroupCommand when the group finds no argument at the cursor: a
\* ParserError without flags if the group has no handler, else an empty
\* ParseResult of the group
NoArgument(t, cmd, idx) ==
    IF ~t.cmds[cmd].action
    THEN ParserError(cmd, "Expected subcommand name", idx, FALSE, {})
    ELSE ParseResult(cmd, <<>>, EmptyFlags)

(***************************************************************************)
(* CommandsParser.parse, and parseGroupCommand up to the flag loop         *)
(***************************************************************************)
parse ==
    /\ pc = "parse"
    /\ LET node == tree.cmds[command]
           argument == getArgument(0)
       IN  CASE node.kind = "group" ->
                  /\ RESULT' = EmptyFlags
                  /\ IF ~Truthy(argument)
                     THEN /\ outcome' = NoArgument(tree, command, index)
                          /\ pc' = IF NoArgument(tree, command, index).kind = "error"
                                   THEN AfterThrow ELSE AfterReturn
                     ELSE /\ outcome' = outcome
                          /\ pc' = IF argument.s[1] = "-" THEN "group_flags" ELSE "group_sub"
                  /\ UNCHANGED <<positionals, FLAGS_MAP>>
             [] node.kind = "action" ->
                  /\ positionals' = <<>>
                  /\ FLAGS_MAP' = EmptyFlags
                  /\ pc' = "action_scan"
                  /\ UNCHANGED <<RESULT, outcome>>
             [] OTHER ->
                  /\ outcome' = ParserError(command, "Unsupported command type", index, FALSE, {})
                  /\ pc' = AfterThrow
                  /\ UNCHANGED <<RESULT, positionals, FLAGS_MAP>>
    /\ UNCHANGED <<others, calls, previous, tree, entry, argv, index, lastError, command, stack, console, hist>>

\* A cursor that moves only when the next token was used as the value
Shift_valueOnly(idx, nextValueUsed) == idx + (IF nextValueUsed THEN 1 ELSE 0)

\* The cursor after a resolved flag token: this.index++, and once more if
\* the next token was used as its value
Shift(idx, nextValueUsed) == idx + 1 + (IF nextValueUsed THEN 1 ELSE 0)

\* An error for a flag of the flag loop of a group that leaves out the
\* flags of the level
UnresolvedFlag_noFlags(cmd, error, idx, flags) ==
    ParserError(cmd, IF error # NoError THEN error ELSE "Failed to resolve tag with name",
                idx, TRUE, {})

\* The error of the flag loop of a group for a flag that resolveFlag gave
\* null for: the last error, or, when there is none because no scope knows
\* the name, "Failed to resolve tag with name"
UnresolvedFlag(cmd, error, idx, flags) ==
    ParserError(cmd, IF error # NoError THEN error ELSE "Failed to resolve tag with name",
                idx, TRUE, Keys(flags))

(***************************************************************************)
(* parseGroupCommand: one iteration of the flag loop, or its exit          *)
(***************************************************************************)
parseGroupCommand_flags ==
    /\ pc = "group_flags"
    /\ LET argument == getArgument(0)
           flag     == parseFlag(argument.s)
           result   == resolveFlag(tree, command, flag, getArgument(1))
       IN  /\ calls' = IF Truthy(argument) /\ flag.isFlag THEN calls \o result.calls ELSE calls
           /\ IF ~Truthy(argument)
              THEN /\ outcome' = ParseResult(command, <<>>, RESULT)
                   /\ pc' = AfterReturn
                   /\ UNCHANGED <<index, lastError, RESULT, hist>>
              ELSE IF ~flag.isFlag
              THEN /\ pc' = "group_sub"
                   /\ UNCHANGED <<index, lastError, RESULT, outcome, hist>>
              ELSE IF ~result.ok
              THEN /\ lastError' = result.error
                   /\ outcome' = UnresolvedFlag(command, result.error, index, RESULT)
                   /\ pc' = AfterThrow
                   /\ UNCHANGED <<index, RESULT, hist>>
              ELSE /\ index' = Shift(index, result.nextValueUsed)
                   /\ RESULT' = MapSet(RESULT, result.flag, result.value)
                   /\ hist' = IF result.nextValueUsed
                              THEN Mark(Mark(hist, index, "flag", result.flag, result.value),
                                        index + 1, "value", result.flag, result.value)
                              ELSE Mark(hist, index, "flag", result.flag, result.value)
                   /\ UNCHANGED <<lastError, outcome, pc>>
    /\ UNCHANGED <<others, previous, tree, entry, argv, command, stack, positionals, FLAGS_MAP, console>>

\* An error for an unknown subcommand that leaves out the flags of the level
UnknownSubcommand_noFlags(cmd, idx, flags) ==
    ParserError(cmd, "Unknown subcommand", idx, TRUE, {})

\* The ParserError of parseGroupCommand for a name that is no subcommand
UnknownSubcommand(cmd, idx, flags) ==
    ParserError(cmd, "Unknown subcommand", idx, TRUE, Keys(flags))

(***************************************************************************)
(* parseGroupCommand: the subcommand name and the recursive parse call     *)
(***************************************************************************)
parseGroupCommand_sub ==
    /\ pc = "group_sub"
    /\ LET argument == getArgument(0)
           sub == toLowerCase(argument.s)
           subcommands == tree.cmds[command].subcommands
       IN  IF sub \notin DOMAIN subcommands
           THEN /\ outcome' = UnknownSubcommand(command, index, RESULT)
                /\ pc' = AfterThrow
                /\ UNCHANGED <<index, command, stack, hist>>
           ELSE /\ index' = index + 1
                /\ stack' = Append(stack, [command |-> command, flags |-> RESULT])
                /\ command' = subcommands[sub]
                /\ pc' = "parse"
                /\ hist' = Mark(hist, index, "sub", NoFlag, VNull)
                /\ UNCHANGED outcome
    /\ UNCHANGED <<others, calls, previous, tree, entry, argv, lastError, RESULT, positionals, FLAGS_MAP, console>>

(***************************************************************************)
(* parseActionCommand: one iteration of the scan loop, or its exit         *)
(***************************************************************************)
parseActionCommand_scan ==
    /\ pc = "action_scan"
    /\ LET argument == getArgument(0)
           flag     == parseFlag(argument.s)
           result   == resolveFlag(tree, command, flag, getArgument(1))
       IN  /\ calls' = IF Truthy(argument) /\ flag.isFlag THEN calls \o result.calls ELSE calls
           /\ IF ~Truthy(argument)
              THEN /\ pc' = "action_args"
                   /\ UNCHANGED <<index, lastError, positionals, FLAGS_MAP, outcome, hist>>
              ELSE IF ~flag.isFlag
              THEN /\ index' = index + 1
                   /\ positionals' = Append(positionals, argument.s)
                   /\ hist' = Mark(hist, index, "arg", NoFlag, VNull)
                   /\ UNCHANGED <<lastError, FLAGS_MAP, outcome, pc>>
              ELSE IF ~result.ok
              THEN /\ index' = index + 1
                   /\ lastError' = result.error
                   /\ IF result.error # NoError
                      THEN /\ outcome' = ParserError(command, result.error, index + 1, TRUE,
                                                     Keys(FLAGS_MAP))
                           /\ pc' = AfterThrow
                           /\ UNCHANGED <<positionals, hist>>
                      ELSE /\ positionals' = Append(positionals, argument.s)
                           /\ hist' = Mark(hist, index, "arg", NoFlag, VNull)
                           /\ UNCHANGED <<outcome, pc>>
                   /\ UNCHANGED FLAGS_MAP
              ELSE /\ index' = Shift(index, result.nextValueUsed)
                   /\ FLAGS_MAP' = MapSet(FLAGS_MAP, result.flag, result.value)
                   /\ hist' = IF result.nextValueUsed
                              THEN Mark(Mark(hist, index, "flag", result.flag, result.value),
                                        index + 1, "value", result.flag, result.value)
                              ELSE Mark(hist, index, "flag", result.flag, result.value)
                   /\ UNCHANGED <<lastError, positionals, outcome, pc>>
    /\ UNCHANGED <<others, previous, tree, entry, argv, command, stack, RESULT, console>>

\* A loop over argumentsTypes that takes the default of every declared
\* parameter without a positional, required or not
ArgumentStatus_neverMissing(def, pos, idx) ==
    IF idx > Len(pos) THEN "default"
    ELSE IF ~isValid(def.validator, pos[idx]) THEN "invalid"
    ELSE IF enforce(def, VStr(pos[idx])).threw THEN "threw"
    ELSE "enforced"

\* What the loop over argumentsTypes does at the declared parameter idx
\* (1-based) with the collected positionals pos
ArgumentStatus(def, pos, idx) ==
    IF idx > Len(pos)
    THEN IF isRequired(def) THEN "missing" ELSE "default"
    ELSE IF ~isValid(def.validator, pos[idx]) THEN "invalid"
    ELSE IF enforce(def, VStr(pos[idx])).threw THEN "threw"
    ELSE "enforced"

\* finalArgs without the positionals beyond the declared parameters
finalArgs_declaredOnly(defs, pos) ==
    [idx \in 1..Len(defs) |->
        IF idx > Len(pos) THEN defs[idx].defaultValue
        ELSE enforce(defs[idx], VStr(pos[idx])).value]

\* finalArgs of parseActionCommand when no declared parameter fails
finalArgs(defs, pos) ==
    [idx \in 1..Len(defs) |->
        IF idx > Len(pos) THEN defs[idx].defaultValue
        ELSE enforce(defs[idx], VStr(pos[idx])).value]
    \o [j \in 1..(IF Len(pos) > Len(defs) THEN Len(pos) - Len(defs) ELSE 0) |->
            VStr(pos[Len(defs) + j])]

\* The validator calls that the loop over argumentsTypes makes at the
\* declared parameter idx: isValid on the positional and, when it is valid,
\* those of def.enforce
ArgumentCalls(def, pos, idx) ==
    IF idx > Len(pos) THEN <<>>
    ELSE <<IsValidCall(def.validator, VStr(pos[idx]))>>
         \o (IF isValid(def.validator, pos[idx]) THEN enforce(def, VStr(pos[idx])).calls
             ELSE <<>>)

\* The validator calls of the loop from the first declared parameter to the
\* parameter last
RECURSIVE LoopCalls(_, _, _)
LoopCalls(defs, pos, last) ==
    IF last = 0 THEN <<>>
    ELSE LoopCalls(defs, pos, last - 1) \o ArgumentCalls(defs[last], pos, last)

(***************************************************************************)
(* parseActionCommand: the declared parameters and the result              *)
(***************************************************************************)
parseActionCommand_args ==
    /\ pc = "action_args"
    /\ LET defs   == tree.cmds[command].argumentsTypes
           failed == {idx \in 1..Len(defs) :
                        ArgumentStatus(defs[idx], positionals, idx)
                            \in {"missing", "invalid", "threw"}}
           first  == CHOOSE idx \in failed : \A other \in failed : idx <= other
           status == ArgumentStatus(defs[first], positionals, first)
       IN  IF failed = {}
           THEN /\ outcome' = ParseResult(command, finalArgs(defs, positionals), FLAGS_MAP)
                /\ calls' = calls \o LoopCalls(defs, positionals, Len(defs))
                /\ pc' = AfterReturn
           ELSE /\ outcome' =
                     CASE status = "missing" ->
                            ParserError(command, "Missing required argument", index, TRUE,
                                        Keys(FLAGS_MAP))
                       [] status = "invalid" ->
                            ParserError(command, "Invalid value", index, TRUE,
                                        Keys(FLAGS_MAP))
                       [] OTHER -> OtherError(command)
                /\ calls' = calls \o LoopCalls(defs, positionals, first)
                /\ pc' = AfterThrow
    /\ UNCHANGED <<others, previous, tree, entry, argv, index, lastError, command, stack, RESULT,
                   positionals, FLAGS_MAP, console, hist>>

\* A merge in which the flags of the outer level replace those of the inner
\* result
MergeFlags_outerWins(inner, outer) == outer @@ inner

\* The merge of parseGroupCommand: the flags of the outer level that the
\* inner result does not have are copied into the inner result
MergeFlags(inner, outer) == inner @@ outer

(***************************************************************************)
(* parseGroupCommand: the recursive parse call returned HRESULT            *)
(***************************************************************************)
parseGroupCommand_return ==
    /\ pc = "return"
    /\ stack # <<>>
    /\ LET frame == stack[Len(stack)]
           rest  == SubSeq(stack, 1, Len(stack) - 1)
       IN  /\ outcome' = [outcome EXCEPT !.flags = MergeFlags(@, frame.flags)]
           /\ stack' = rest
           /\ command' = frame.command
           /\ RESULT' = frame.flags
           /\ pc' = IF rest = <<>> THEN Finish ELSE "return"
    /\ UNCHANGED <<others, calls, previous, tree, entry, argv, index, lastError, positionals, FLAGS_MAP,
                   console, hist>>

\* A catch block that replaces the flag set of the error by the keys of the
\* outer level
AttachFlags_replace(error, outer) ==
    IF error.kind = "error"
    THEN [error EXCEPT !.hasSet = TRUE, !.set = Keys(outer)]
    ELSE error

\* The catch block of parseGroupCommand: the keys of the outer level are
\* added to the flag set of a ParserError, or become its flag set when it
\* has none; any other error is left as it is
AttachFlags(error, outer) ==
    IF error.kind = "error"
    THEN [error EXCEPT !.hasSet = TRUE, !.set = @ \cup Keys(outer)]
    ELSE error

(***************************************************************************)
(* parseGroupCommand: the recursive parse call threw                       *)
(***************************************************************************)
parseGroupCommand_catch ==
    /\ pc = "throw"
    /\ stack # <<>>
    /\ LET frame == stack[Len(stack)]
           rest  == SubSeq(stack, 1, Len(stack) - 1)
       IN  /\ outcome' = AttachFlags(outcome, frame.flags)
           /\ stack' = rest
           /\ command' = frame.command
           /\ RESULT' = frame.flags
           /\ pc' = IF rest = <<>> THEN Finish ELSE "throw"
    /\ UNCHANGED <<others, calls, previous, tree, entry, argv, index, lastError, positionals, FLAGS_MAP,
                   console, hist>>

(***************************************************************************)
(* CommandLine.run after parser.parse(command)                             *)
(***************************************************************************)
run ==
    /\ pc = "run"
    /\ console' =
         CASE outcome.kind = "result" ->
                IF tree.cmds[outcome.command].uniqueHelpFlag \in Keys(outcome.flags)
                THEN [console EXCEPT !.info = outcome.command]
                ELSE IF getExecutable(tree, outcome)
                     THEN [console EXCEPT !.invoked = outcome.command]
                     ELSE console
           [] outcome.kind = "error" ->
                [console EXCEPT
                   !.errorMessage = ~(outcome.hasSet /\
                        tree.cmds[outcome.command].uniqueHelpFlag \in outcome.set),
                   !.errorHelp = outcome.command]
           [] OTHER -> [console EXCEPT !.threw = TRUE]
    /\ pc' = "done"
    /\ UNCHANGED <<others, calls, previous, tree, entry, argv, index, lastError, command, stack, RESULT,
                   positionals, FLAGS_MAP, outcome, hist>>

(***************************************************************************)
(* A second parse of the same tokens against the same tree: by a new       *)
(* parser, as CommandLine.run makes one for every call, or by a second     *)
(* call of parse on the parser of the first                                *)
(***************************************************************************)
parseAgain ==
    /\ pc = "done"
    /\ ~previous.done
    /\ \E fresh \in IF entry = "run" THEN {TRUE} ELSE BOOLEAN :
          LET parser == IF fresh THEN CommandsParser(StartIndex(entry))
                        ELSE [index |-> index, lastError |-> lastError]
          IN  /\ previous' = [done |-> TRUE, fresh |-> fresh, outcome |-> outcome]
              /\ index' = parser.index
              /\ lastError' = parser.lastError
    /\ pc' = "parse"
    /\ command' = Root
    /\ stack' = <<>>
    /\ RESULT' = EmptyFlags
    /\ positionals' = <<>>
    /\ FLAGS_MAP' = EmptyFlags
    /\ outcome' = NoOutcome
    /\ hist' = [i \in 1..Len(argv) |-> NoRole]
    /\ UNCHANGED <<others, tree, entry, argv, console, calls>>

Next ==
    \/ parse
    \/ parseGroupCommand_flags
    \/ parseGroupCommand_sub
    \/ parseActionCommand_scan
    \/ parseActionCommand_args
    \/ parseGroupCommand_return
    \/ parseGroupCommand_catch
    \/ run

(***************************************************************************)
(* Token syntax                                                            *)
(***************************************************************************)
\* --name
Long(name) == <<"-", "-">> \o name

\* --name=value
LongEq(name, value) == <<"-", "-">> \o name \o <<"=">> \o value

\* -n
Short(name) == <<"-">> \o name

\* -nVALUE
ShortInline(name, value) == <<"-">> \o name \o value

\* -n=value
ShortEq(name, value) == <<"-">> \o name \o <<"=">> \o value

\* All token arrays of at most max tokens of a pool
TokenArrays(pool, max) == UNION {[1..n -> pool] : n \in 0..max}

(***************************************************************************)
(* The command tree of the parser's tests, built as the tests build it:    *)
(*   . (group; flag tag)                                                   *)
(*     run    (action, no parameters; flags name, age, active, optional)   *)
(*     copy   (action; parameters source (required), dest (default))       *)
(*     repeat (action; parameter count (required, int))                    *)
(*     config (group; flag verbose)                                        *)
(*       set  (action, no parameters; flag local under the long key tag)   *)
(* The spelling of the names given at registration is a parameter.         *)
(***************************************************************************)
S_dot      == <<".">>
S_run      == <<"r","u","n">>
S_copy     == <<"c","o","p","y">>
S_repeat   == <<"r","e","p","e","a","t">>
S_config   == <<"c","o","n","f","i","g">>
S_set      == <<"s","e","t">>
S_name     == <<"n","a","m","e">>
S_age      == <<"a","g","e">>
S_active   == <<"a","c","t","i","v","e">>
S_optional == <<"o","p","t","i","o","n","a","l">>
S_tag      == <<"t","a","g">>
S_verbose  == <<"v","e","r","b","o","s","e">>
S_local    == <<"l","o","c","a","l">>
S_source   == <<"s","o","u","r","c","e">>
S_dest     == <<"d","e","s","t">>
S_output   == <<"o","u","t","p","u","t">>
S_count    == <<"c","o","u","n","t">>
S_nm       == <<"n","m">>
S_dv       == <<"d","v">>

\* The spelling used by the tests
TestNames ==
    [run |-> S_run, config |-> S_config, long |-> S_name, short |-> <<"n">>,
     longAlias |-> S_nm, shortAlias |-> <<"m">>]

BuildTree(names) ==
    LET t0  == GroupCommand_create(EmptyTree, Root, S_dot)
        t1  == addFlag(t0, Root, "tag",
                       ValueFlag(S_tag, StringTypeValidator, VNull, S_tag, <<"t">>))
        t2  == setAction(createAction(t1, Root, "run", names.run, <<>>), "run")
        t3  == addFlag(t2, "run", "name",
                       ValueFlag(S_name, StringTypeValidator, VNull, names.long, names.short))
        t4  == addFlag(t3, "run", "age",
                       ValueFlag(S_age, NumberTypeValidator, VNull, S_age, <<"a">>))
        t5  == addFlag(t4, "run", "active", Flag(S_active, S_active, <<"b">>))
        t6  == addFlag(t5, "run", "optional",
                       ValueFlag(S_optional, StringTypeValidator, VStr(S_dv), S_optional,
                                 <<"o">>))
        t7  == addShortAlias(addLongAlias(t6, "run", "name", names.longAlias),
                             "run", "name", names.shortAlias)
        t8  == setAction(createAction(t7, Root, "copy", S_copy,
                    <<ArgumentLike(S_source, StringTypeValidator, VNull),
                      ArgumentLike(S_dest, StringTypeValidator, VStr(S_output))>>), "copy")
        t9  == setAction(createAction(t8, Root, "repeat", S_repeat,
                    <<ArgumentLike(S_count, IntegerTypeValidator, VNull)>>), "repeat")
        t10 == createGroup(t9, Root, "config", names.config)
        t11 == addFlag(t10, "config", "verbose", Flag(S_verbose, S_verbose, <<"v">>))
        t12 == setAction(createAction(t11, "config", "set", S_set, <<>>), "set")
    IN  addFlag(t12, "set", "local",
                ValueFlag(S_local, NumberTypeValidator, VNull, S_tag, NoString))

TestTree == BuildTree(TestNames)

(***************************************************************************)
(* The forms of a flag token                                               *)
(***************************************************************************)
S_Hi == <<"H","i">>

\* The values given to the flag name: empty, plain, with an equals sign and
\* shaped like a flag
FormValues == {<<>>, S_Hi, <<"a","=","b">>, <<"-","x">>}

\* The five forms of the flag name with value v (arguments.ts:306-345)
Forms(v) ==
    {<<LongEq(S_name, v)>>, <<Long(S_name), v>>, <<ShortInline(<<"n">>, v)>>,
     <<Short(<<"n">>), v>>, <<ShortEq(<<"n">>, v)>>}

FormsPool == {S_run} \cup UNION {{f[i] : i \in 1..Len(f)} : f \in UNION {Forms(v) : v \in FormValues}}

MaxFormsTokens == 3

InitForms == InitWith({TestTree}, {"parse", "run"}, TokenArrays(FormsPool, MaxFormsTokens))

SpecForms == InitForms /\ [][Next]_vars

(***************************************************************************)
(* C1: the five forms of a flag token                                      *)
(***************************************************************************)
\* C1 as stated: for every value v, each of the five forms --name=v,
\* --name v, -nv, -n v and -n=v after the action name parses and resolves
\* the flag name to v.
C1_AllFormsAnyValue ==
    \A v \in FormValues : \A form \in Forms(v) :
        (pc = "done" /\ Tokens = <<S_run>> \o form)
            => /\ outcome.kind = "result"
               /\ outcome.command = "run"
               /\ "name" \in DOMAIN outcome.flags
               /\ outcome.flags["name"] = VStr(v)
               /\ getValue(tree, outcome, "name") = VStr(v)

\* The values that are not empty and hold no equals sign
PlainValues == {v \in FormValues : Len(v) > 0 /\ indexOf(v, "=") = -1}

\* C1 amended: for every non-empty value v without an equals sign, each of
\* the five forms after the action name parses and resolves the flag name
\* to v.
C1_AllFormsPlainValue ==
    \A v \in PlainValues : \A form \in Forms(v) :
        (pc = "done" /\ Tokens = <<S_run>> \o form)
            => /\ outcome.kind = "result"
               /\ outcome.command = "run"
               /\ "name" \in DOMAIN outcome.flags
               /\ outcome.flags["name"] = VStr(v)
               /\ getValue(tree, outcome, "name") = VStr(v)

\* A parse of run -nHi has finished with the flag name resolved to Hi
C1_Witness ==
    /\ pc = "done"
    /\ Tokens = <<S_run, ShortInline(<<"n">>, S_Hi)>>
    /\ outcome.kind = "result"
    /\ "name" \in DOMAIN outcome.flags
    /\ outcome.flags["name"] = VStr(S_Hi)

(***************************************************************************)
(* C2: --long=v and -short=v for every flag of the tree and raw values     *)
(***************************************************************************)
S_5 == <<"5">>

\* Raw values: empty, a number and a boolean
RawValues == {<<>>, S_5, S_true}

\* The flag objects of a tree
FlagObjects(t) == DOMAIN t.heap

\* --long=v and -short=v for every flag object of the test tree
ValuesPool ==
    {LongEq(TestTree.heap[f].long, v) : f \in FlagObjects(TestTree), v \in RawValues}
    \cup {ShortEq(TestTree.heap[f].short, v) :
            f \in {g \in FlagObjects(TestTree) : Len(TestTree.heap[g].short) > 0},
            v \in RawValues}
    \cup {S_run, S_config, S_set}

\* The subcommand names that lead to each command of the test tree
Paths == {<<>>, <<S_run>>, <<S_config>>, <<S_config, S_set>>}

MaxValueTokens == 2

InitValues ==
    InitWith({TestTree}, {"run"},
             {path \o toks : path \in Paths, toks \in TokenArrays(ValuesPool, MaxValueTokens)})

SpecValues == InitValues /\ [][Next]_vars

\* The parser is at a token of a flag loop
AtToken == pc \in {"group_flags", "action_scan"} /\ index < Len(argv)

\* The flag map of the level that is being parsed
LevelMap == IF pc = "group_flags" THEN RESULT ELSE FLAGS_MAP

\* The flag tokens that resolved the flag f, by position
ResolvedAt(f) == {i \in 1..Len(argv) : hist[i].role = "flag" /\ hist[i].flag = f}

\* C2 as stated: for every flag f of the active scope chain, value-based or
\* boolean, and every raw v that f's validator accepts, the token --long=v
\* (or -short=v) is resolved without error and the flag map holds coerce(v)
\* under f.
C2_EveryFlag ==
    [][\A f \in FlagObjects(tree) : \A v \in RawValues :
          LET obj == tree.heap[f]
          IN  (/\ AtToken
               /\ isValid(obj.validator, v)
               /\ \/ /\ argv[index + 1] = LongEq(obj.long, v)
                     /\ getLong(tree, command, obj.long) = f
                  \/ /\ Len(obj.short) > 0
                     /\ argv[index + 1] = ShortEq(obj.short, v)
                     /\ getShort(tree, command, obj.short) = f)
              => (/\ outcome'.kind = "none"
                  /\ f \in DOMAIN LevelMap'
                  /\ LevelMap'[f] = coerce(obj.validator, v))]_vars

\* C2 amended, the step: for every value-based flag f that its long (short)
\* key resolves to in the scope of the command being parsed, and every raw v
\* that f's validator accepts (v not empty in the short form), the token
\* --long=v (or -short=v) is resolved without error and the flag map of that
\* level holds coerce(v) under f.
C2_ValueFlagStep ==
    \A f \in FlagObjects(tree) : \A v \in RawValues :
        LET obj == tree.heap[f]
        IN  (/\ AtToken
             /\ isValueBased(obj)
             /\ isValid(obj.validator, v)
             /\ \/ /\ argv[index + 1] = LongEq(obj.long, v)
                   /\ getLong(tree, command, obj.long) = f
                \/ /\ Len(obj.short) > 0
                   /\ Len(v) > 0
                   /\ argv[index + 1] = ShortEq(obj.short, v)
                   /\ getShort(tree, command, obj.short) = f)
            => (/\ outcome'.kind = "none"
                /\ f \in DOMAIN LevelMap'
                /\ LevelMap'[f] = coerce(obj.validator, v))

\* C2 amended, the result: when the parse succeeds, the result map holds
\* coerce(v) under f for the last token --long=v (or -short=v, v not empty)
\* that resolved the value-based flag f.
C2_ValueFlagResult ==
    (pc \in {"run", "done"} /\ outcome.kind = "result") =>
        \A f \in FlagObjects(tree) : \A v \in RawValues : \A i \in ResolvedAt(f) :
            LET obj == tree.heap[f]
            IN  (/\ isValueBased(obj)
                 /\ \A j \in ResolvedAt(f) : j <= i
                 /\ \/ argv[i] = LongEq(obj.long, v)
                    \/ Len(obj.short) > 0 /\ Len(v) > 0 /\ argv[i] = ShortEq(obj.short, v))
                => (/\ f \in DOMAIN outcome.flags
                    /\ outcome.flags[f] = coerce(obj.validator, v))

\* C2 amended: for every value-based flag f that its long (short) key
\* resolves to in the active scope chain and every raw v that f's validator
\* accepts (v not empty in the short form), parsing --long=v (or -short=v)
\* succeeds and the result map holds coerce(v) under f.
C2_ValueFlag == [][C2_ValueFlagStep]_vars /\ []C2_ValueFlagResult

\* A parse has succeeded in which --age=5 resolved the flag age to 5
C2_Witness ==
    /\ pc = "done"
    /\ outcome.kind = "result"
    /\ \E i \in ResolvedAt("age") : argv[i] = LongEq(S_age, S_5)
    /\ "age" \in DOMAIN outcome.flags
    /\ outcome.flags["age"] = VNum(5)

(***************************************************************************)
(* C3, C4, C8: help tokens among subcommand names, flags and positionals   *)
(***************************************************************************)
\* --help, -h and -?
HelpTokens == {Long(S_help), Short(<<"h">>), Short(<<"?">>)}

S_x == <<"x">>

HelpPool ==
    HelpTokens \cup {S_run, S_config, S_set, Long(S_name), Short(<<"o">>), S_x,
                     LongEq(S_tag, S_5)}

MaxHelpTokens == 3

InitHelp == InitWith({TestTree}, {"parse", "run"}, TokenArrays(HelpPool, MaxHelpTokens))

SpecHelp == InitHelp /\ [][Next]_vars

\* The help flag objects of all commands
HelpFlags == {tree.cmds[c].uniqueHelpFlag : c \in DOMAIN tree.cmds}

\* C3: in every successful parse whose tokens hold a help token (--help, -h
\* or -?) at any position from the start index on, before or after a
\* subcommand name, other flags and positionals (and not taken as the value
\* of the flag before it), getValue of the resolved command's uniqueHelpFlag
\* is true.
C3_HelpAtAnyPosition ==
    (/\ pc \in {"run", "done"}
     /\ outcome.kind = "result"
     /\ \E i \in (StartIndex(entry) + 1)..Len(argv) :
            argv[i] \in HelpTokens /\ hist[i].role # "value")
    => getValue(tree, outcome, tree.cmds[outcome.command].uniqueHelpFlag) = VBool(TRUE)

\* C4: when CommandLine.run has parsed successfully and a token was resolved
\* as a help flag at any level, run has rendered the help of the resolved
\* command and has not invoked its handler; help and handler never both
\* happen, and the handler is invoked only when no help flag was resolved.
C4_HelpInsteadOfHandler ==
    (pc = "done" /\ entry = "run" /\ outcome.kind = "result") =>
        LET helpResolved == \E f \in HelpFlags : ResolvedAt(f) # {}
        IN  /\ helpResolved => (console.info = outcome.command /\ console.invoked = NoCommand)
            /\ console.invoked # NoCommand => ~helpResolved
            /\ ~(console.info # NoCommand /\ console.invoked # NoCommand)

\* C8: in every successful parse, getValue(f) is f's default value for every
\* flag f that no token resolved, whatever else the tokens hold.
C8_DefaultWhenOmitted ==
    (pc \in {"run", "done"} /\ outcome.kind = "result") =>
        \A f \in FlagObjects(tree) :
            ResolvedAt(f) = {} => getValue(tree, outcome, f) = tree.heap[f].defaultValue

\* A parse of run with another flag and a positional has succeeded, and no
\* token resolved the flag optional, whose default is "dv"
C8_Witness ==
    /\ pc = "done"
    /\ outcome.kind = "result"
    /\ outcome.command = "run"
    /\ ResolvedAt("optional") = {}
    /\ ResolvedAt("tag") # {}
    /\ Len(outcome.args) > 0
    /\ getValue(tree, outcome, "optional") = VStr(S_dv)

(***************************************************************************)
(* C5: flags at the levels of nested groups                                *)
(***************************************************************************)
S_7 == <<"7">>

NestedPool ==
    {S_config, S_set, S_x, LongEq(S_tag, S_5), LongEq(S_tag, S_7), Short(<<"v">>)}

MaxNestedTokens == 5

InitNested == InitWith({TestTree}, {"parse", "run"}, TokenArrays(NestedPool, MaxNestedTokens))

SpecNested == InitNested /\ [][Next]_vars

\* C5: in a successful parse, every flag object resolved at some level of
\* the path is in the final result map, nothing else is, and its value is the
\* one resolved by the innermost level that resolved it (by the last token
\* of that level): an outer value is kept unless the subcommand's own parse
\* resolved the same flag object.
C5_OuterFlagsPropagate ==
    (pc \in {"run", "done"} /\ outcome.kind = "result") =>
        /\ DOMAIN outcome.flags = {f \in FlagObjects(tree) : ResolvedAt(f) # {}}
        /\ \A f \in DOMAIN outcome.flags : \A i \in ResolvedAt(f) :
              (\A j \in ResolvedAt(f) : j <= i) => outcome.flags[f] = hist[i].value

\* --tag=5 config --tag=7 -v set has been parsed: the flag tag was resolved
\* to 5 at the root and to 7 at config, verbose at config only, and the
\* result of set holds tag = 7 and verbose = true
C5_Witness ==
    /\ pc = "done"
    /\ outcome.kind = "result"
    /\ outcome.command = "set"
    /\ Tokens = <<LongEq(S_tag, S_5), S_config, LongEq(S_tag, S_7), Short(<<"v">>), S_set>>
    /\ hist[Len(argv) - 4].command = Root
    /\ hist[Len(argv) - 2].command = "config"
    /\ outcome.flags = ("tag" :> VStr(S_7)) @@ ("verbose" :> VBool(TRUE))

(***************************************************************************)
(* C6, C7: the letter case of names at registration and in tokens          *)
(***************************************************************************)
S_Run    == <<"R","u","n">>
S_Config == <<"C","o","n","f","i","g">>
S_NAME   == <<"N","A","M","E">>
S_NM     == <<"N","M">>

\* Names registered with capital letters
CapitalNames ==
    [run |-> S_Run, config |-> S_Config, long |-> S_NAME, short |-> <<"N">>,
     longAlias |-> S_NM, shortAlias |-> <<"M">>]

\* Flag names registered with capital letters under lower-case commands
CapitalFlagNames == [CapitalNames EXCEPT !.run = S_run, !.config = S_config]

CaseTrees == {TestTree, BuildTree(CapitalNames), BuildTree(CapitalFlagNames)}

CasePool ==
    {S_run, S_Run, S_config, S_set, S_x,
     LongEq(S_name, S_Hi), LongEq(S_NAME, S_Hi), ShortEq(<<"n">>, S_Hi), ShortEq(<<"N">>, S_Hi),
     LongEq(S_nm, S_Hi), LongEq(S_NM, S_Hi), ShortEq(<<"m">>, S_Hi), ShortEq(<<"M">>, S_Hi)}

MaxCaseTokens == 3

InitCase == InitWith(CaseTrees, {"parse", "run"}, TokenArrays(CasePool, MaxCaseTokens))

SpecCase == InitCase /\ [][Next]_vars

\* C6: a token t that a group takes as a subcommand name enters the
\* subcommand created under a name N with lower(t) = lower(N), whatever the
\* case of N at creation: it is never an unknown subcommand.
C6_SubcommandAnyCase ==
    ~(/\ outcome.kind = "error"
      /\ outcome.message = "Unknown subcommand"
      /\ \E N \in DOMAIN tree.cmds[outcome.command].subcommands :
            toLowerCase(N) = toLowerCase(argv[outcome.index + 1]))

\* The keys registered in the scope of command cmd and in the scopes of its
\* ancestors
RECURSIVE ScopeKeys(_, _)
ScopeKeys(t, cmd) ==
    IF cmd = NoCommand THEN {}
    ELSE DOMAIN t.cmds[cmd].flags.map \cup ScopeKeys(t, t.cmds[cmd].flags.base)

\* The flag token tok names, ignoring case, a key of the scope chain of cmd
NamesKey(t, cmd, tok) ==
    LET flag == parseFlag(tok)
    IN  /\ flag.isFlag
        /\ \E k \in ScopeKeys(t, cmd) :
              /\ k[1] = IF flag.isLong THEN "long" ELSE "short"
              /\ toLowerCase(k[2]) = flag.name

\* C7: a flag token whose name equals, ignoring case, a long or short key
\* registered in the scope chain (by FlagsGroup.add or by an alias) is
\* resolved as a flag: an action never collects it as a positional and a
\* group never fails to resolve it.
C7_FlagKeyAnyCase ==
    /\ \A i \in 1..Len(argv) :
          hist[i].role = "arg" => ~NamesKey(tree, hist[i].command, argv[i])
    /\ ~(/\ outcome.kind = "error"
         /\ outcome.message = "Failed to resolve tag with name"
         /\ NamesKey(tree, outcome.command, argv[outcome.index + 1]))

(***************************************************************************)
(* C9, C10: the positional arguments of an action                          *)
(***************************************************************************)
S_a  == <<"a">>
S_zz == <<"z","z">>

\* Subcommand names, positionals that are and are not integers, the empty
\* token, a flag that resolves with an inline value, the same flag bare, and
\* a flag shaped token that no scope knows
ArgsPool ==
    {S_copy, S_repeat, S_a, S_5, <<>>, LongEq(S_tag, S_5), Long(S_tag), Long(S_zz)}

MaxArgsTokens == 4

InitArgs == InitWith({TestTree}, {"parse", "run"}, TokenArrays(ArgsPool, MaxArgsTokens))

SpecArgs == InitArgs /\ [][Next]_vars

\* The tokens among the first n that the scan of an action collected as
\* positionals, in token order
RECURSIVE CollectedUpTo(_)
CollectedUpTo(n) ==
    IF n = 0 THEN <<>>
    ELSE IF hist[n].role = "arg" THEN Append(CollectedUpTo(n - 1), argv[n])
    ELSE CollectedUpTo(n - 1)

CollectedTokens == CollectedUpTo(Len(argv))

\* Some declared parameter is required and has no positional token at its
\* index, or the positional token at its index fails its validator
SomeParameterFails(defs, pos) ==
    \E idx \in 1..Len(defs) :
        \/ idx > Len(pos) /\ defs[idx].defaultValue = VNull
        \/ idx <= Len(pos) /\ ~isValid(defs[idx].validator, pos[idx])

C9_Step ==
    pc = "action_args" =>
        LET defs == tree.cmds[command].argumentsTypes
        IN  /\ outcome'.command = command
            /\ outcome'.kind \in {"result", "error"}
            /\ outcome'.kind = "error" <=> SomeParameterFails(defs, CollectedTokens)

\* C9: when the scan of an action's tokens ended without a flag error, the
\* parse of the action fails with a ParserError of that action exactly when
\* a required declared parameter has no positional token at its index or a
\* positional token of a declared parameter fails the parameter's
\* validator; otherwise it returns a ParseResult of that action.
C9_ErrorIffParameterFails == [][C9_Step]_vars

\* repeat a: the positional of the integer parameter is not an integer and
\* the parse failed; the scan had been completed
C9_Witness ==
    /\ pc = "done"
    /\ Tokens = <<S_repeat, S_a>>
    /\ hist[Len(argv)].role = "arg"
    /\ outcome.kind = "error"
    /\ outcome.command = "repeat"
    /\ outcome.message = "Invalid value"

\* C10: the args of a successful action parse with declared parameters
\* d1..dn and positional tokens p1..pk have length max(n, k); args[i] is pi
\* coerced by di's validator for i <= min(n, k), di's default for
\* k < i <= n, and the raw string pi for n < i <= k.
C10_ArgsLayout ==
    (/\ pc \in {"run", "done"}
     /\ outcome.kind = "result"
     /\ tree.cmds[outcome.command].kind = "action") =>
        LET d == tree.cmds[outcome.command].argumentsTypes
            p == CollectedTokens
            n == Len(d)
            k == Len(p)
        IN  /\ Len(outcome.args) = IF n > k THEN n ELSE k
            /\ \A i \in 1..Len(outcome.args) :
                  outcome.args[i] =
                      IF i <= n /\ i <= k THEN coerce(d[i].validator, p[i])
                      ELSE IF i <= n THEN d[i].defaultValue
                      ELSE VStr(p[i])

\* repeat 5 --zz a: the integer parameter got the number 5, and the two
\* further positionals, one of them flag shaped, follow as raw strings
C10_Witness ==
    /\ pc = "done"
    /\ Tokens = <<S_repeat, S_5, Long(S_zz), S_a>>
    /\ outcome.kind = "result"
    /\ outcome.command = "repeat"
    /\ outcome.args = <<VNum(5), VStr(Long(S_zz)), VStr(S_a)>>

(***************************************************************************)
(* C11: the flag set of a ParserError                                      *)
(***************************************************************************)
\* Subcommand names, a name no group knows, flags that resolve at every
\* level, and --tag=x, which is a valid tag of the root and an invalid number
\* for the flag that set registers under the same key
ErrorsPool ==
    {S_config, S_set, S_x, LongEq(S_tag, S_5), Short(<<"v">>), LongEq(S_tag, S_x)}

MaxErrorTokens == 5

InitErrors == InitWith({TestTree}, {"parse", "run"}, TokenArrays(ErrorsPool, MaxErrorTokens))

SpecErrors == InitErrors /\ [][Next]_vars

\* The flag objects that some token resolved, at any level
ResolvedFlags == {f \in FlagObjects(tree) : ResolvedAt(f) # {}}

\* The call of parse has ended with something thrown
ParseFailed == pc \in {"run", "done"} /\ outcome.kind # "result"

\* C11 as stated: whenever a parse fails, a ParserError reaches the caller
\* and its flags are the set of the flag objects resolved before the failure
\* at every level of the path.
C11_AlwaysTheUnion ==
    ParseFailed =>
        /\ outcome.kind = "error"
        /\ outcome.hasSet
        /\ outcome.set = ResolvedFlags

C11_UnionOrNullAtRoot ==
    ParseFailed =>
        /\ outcome.kind = "error"
        /\ IF outcome.hasSet
           THEN outcome.set = ResolvedFlags
           ELSE /\ outcome.command = Root
                /\ outcome.message = "Expected subcommand name"
                /\ ResolvedFlags = {}

\* C11: whenever a parse fails, one ParserError reaches the caller; its
\* flags are the set of the flag objects resolved before the failure at
\* every level of the path, except that they are null when the root command
\* itself finds no token; the token array it refers to is the one given to
\* the parser.
C11_ErrorFlags == []C11_UnionOrNullAtRoot /\ [][argv' = argv]_vars

\* --tag=5 config -v set --tag=x failed at set on the invalid number; the
\* error carries the tag of the root and the verbose of config
C11_Witness ==
    /\ pc = "done"
    /\ Tokens = <<LongEq(S_tag, S_5), S_config, Short(<<"v">>), S_set, LongEq(S_tag, S_x)>>
    /\ outcome.kind = "error"
    /\ outcome.command = "set"
    /\ outcome.message = "Incorrect type passed as value for flag"
    /\ outcome.set = {"tag", "verbose"}

(***************************************************************************)
(* C12, C13: groups with and without a handler                             *)
(***************************************************************************)
\* The tree of the tests with a handler on the group config
HandlerTree == setAction(TestTree, "config")

GroupsPool ==
    {S_config, S_set, S_x, <<>>, Short(<<"v">>), LongEq(S_tag, S_5)}

MaxGroupsTokens == 4

InitGroups ==
    InitWith({TestTree, HandlerTree}, {"parse", "run"}, TokenArrays(GroupsPool, MaxGroupsTokens))

SpecGroups == InitGroups /\ [][Next]_vars

\* C12: the result of a successful parse has an executable only when its
\* command is an action command with a handler; the result of a group, with
\* or without a handler, has none, and CommandLine.run invokes no handler
\* of a group.
C12_ExecutableOnlyForAction ==
    (pc \in {"run", "done"} /\ outcome.kind = "result") =>
        /\ getExecutable(tree, outcome) =>
              (tree.cmds[outcome.command].kind = "action" /\ tree.cmds[outcome.command].action)
        /\ console.invoked # NoCommand => tree.cmds[console.invoked].kind = "action"

C13_Step ==
    (/\ pc = "parse"
     /\ tree.cmds[command].kind = "group"
     /\ index >= Len(argv)) =>
        IF tree.cmds[command].action
        THEN /\ outcome' = ParseResult(command, <<>>, EmptyFlags)
             /\ pc' \in {"return", "run", "done"}
        ELSE /\ outcome'.kind = "error"
             /\ outcome'.command = command
             /\ pc' \in {"throw", "run", "done"}

\* The parse has ended in a group that was entered with no token left
EndedInGroup(group) ==
    /\ pc \in {"run", "done"}
    /\ outcome.command = group
    /\ tree.cmds[group].kind = "group"
    /\ \A i \in (StartIndex(entry) + 1)..Len(argv) : hist[i].role \in {"sub", "flag", "value"}
    /\ Tokens # <<>> => hist[Len(argv)].role = "sub"

C13_Result ==
    \A group \in DOMAIN tree.cmds :
        EndedInGroup(group) =>
            IF tree.cmds[group].action
            THEN /\ outcome.kind = "result"
                 /\ outcome.args = <<>>
                 /\ \A f \in DOMAIN outcome.flags :
                       \E i \in ResolvedAt(f) : hist[i].command # group
            ELSE outcome.kind = "error"

\* C13: a group that is entered with the cursor at the end of the token
\* array throws a ParserError of that group if it has no handler, and
\* returns a ParseResult of that group with empty args and no flag of its
\* own level if it has one; that is what the caller gets, with the flags of
\* the outer levels merged in.
C13_GroupAtEnd == [][C13_Step]_vars /\ []C13_Result

\* --tag=5 config against the tree with a handler on config: the result is
\* config's, without args, with the tag resolved by the root
C13_Witness ==
    /\ pc = "done"
    /\ tree = HandlerTree
    /\ Tokens = <<LongEq(S_tag, S_5), S_config>>
    /\ outcome = ParseResult("config", <<>>, "tag" :> VStr(S_5))

(***************************************************************************)
(* C14: a name that is no subcommand                                       *)
(***************************************************************************)
\* The flag objects resolved by tokens at the level of command cmd
ResolvedAtLevel(cmd) ==
    {f \in FlagObjects(tree) : \E i \in ResolvedAt(f) : hist[i].command = cmd}

C14_Step ==
    (/\ pc = "group_sub"
     /\ toLowerCase(argv[index + 1]) \notin DOMAIN tree.cmds[command].subcommands) =>
        /\ outcome'.kind = "error"
        /\ outcome'.command = command
        /\ outcome'.index = index
        /\ outcome'.hasSet
        /\ ResolvedAtLevel(command) \subseteq outcome'.set
        /\ pc' \in {"throw", "run", "done"}

C14_Result ==
    (ParseFailed /\ outcome.message = "Unknown subcommand") =>
        /\ tree.cmds[outcome.command].kind = "group"
        /\ outcome.index \in StartIndex(entry)..(Len(argv) - 1)
        /\ hist[outcome.index + 1].role = "none"
        /\ \A i \in (StartIndex(entry) + 1)..outcome.index : hist[i].role # "none"
        /\ outcome.hasSet
        /\ ResolvedAtLevel(outcome.command) \subseteq outcome.set

\* C14: a token at a group's cursor that is not a flag and is the name of
\* none of the group's subcommands makes the group throw a ParserError with
\* that group as command, the position of that token as index and the flags
\* resolved at the group's level in its flags; the error reaches the caller
\* with these, and the token array is never changed.
C14_UnknownSubcommand ==
    [][C14_Step /\ argv' = argv]_vars /\ []C14_Result

\* config -v x: x is no subcommand of config; the error names config, the
\* position of x and the flag verbose
C14_Witness ==
    /\ pc = "done"
    /\ entry = "parse"
    /\ Tokens = <<S_config, Short(<<"v">>), S_x>>
    /\ outcome = ParserError("config", "Unknown subcommand", Len(argv) - 1, TRUE, {"verbose"})

(***************************************************************************)
(* C15: boolean flags and inline values                                    *)
(***************************************************************************)
BoolPool ==
    {S_run, S_config, S_x,
     Long(S_active), LongEq(S_active, <<>>), LongEq(S_active, S_x),
     Short(<<"b">>), ShortInline(<<"b">>, S_x), ShortEq(<<"b">>, <<>>),
     Long(S_verbose), LongEq(S_verbose, <<>>), LongEq(S_verbose, S_x)}

MaxBoolTokens == 3

InitBool == InitWith({TestTree}, {"parse", "run"}, TokenArrays(BoolPool, MaxBoolTokens))

SpecBool == InitBool /\ [][Next]_vars

\* Inline values of a token, the empty string among them
InlineValues == {<<>>, S_x}

\* The token at the cursor names the boolean flag f of the active scope
\* chain and has no inline value
BareTokenOf(f) ==
    LET obj == tree.heap[f]
    IN  /\ AtToken
        /\ ~isValueBased(obj)
        /\ \/ argv[index + 1] = Long(obj.long) /\ getLong(tree, command, obj.long) = f
           \/ argv[index + 1] = Short(obj.short) /\ getShort(tree, command, obj.short) = f

\* The token at the cursor names the boolean flag f of the active scope
\* chain and has the inline value v: --long=v, -s=v, or -sv with v not empty
InlineTokenOf(f, v) ==
    LET obj == tree.heap[f]
    IN  /\ AtToken
        /\ ~isValueBased(obj)
        /\ \/ argv[index + 1] = LongEq(obj.long, v) /\ getLong(tree, command, obj.long) = f
           \/ /\ argv[index + 1] \in {ShortEq(obj.short, v)} \cup
                                     (IF v = <<>> THEN {} ELSE {ShortInline(obj.short, v)})
              /\ getShort(tree, command, obj.short) = f

\* The step resolved f to true and moved the cursor by one token only
ResolvedTrue(f) ==
    /\ outcome'.kind = "none"
    /\ f \in DOMAIN LevelMap'
    /\ LevelMap'[f] = VBool(TRUE)
    /\ index' = index + 1

\* The step threw a ParserError of the command being parsed
ResolveFailed ==
    /\ outcome'.kind = "error"
    /\ outcome'.command = command
    /\ outcome'.message = "Syntax error, this flag doesn't supports values"
    /\ pc' \in {"throw", "run", "done"}

\* C15 as stated: a token of a boolean flag with an inline value, the empty
\* string included, fails with a ParserError; a token without one resolves
\* the flag to true without consuming the next token.
C15_AnyInlineValueFails ==
    [][\A f \in FlagObjects(tree) :
          /\ BareTokenOf(f) => ResolvedTrue(f)
          /\ \A v \in InlineValues : InlineTokenOf(f, v) => ResolveFailed]_vars

\* C15: a token of a boolean flag fails with a ParserError when it has a
\* non-empty inline value (text after = or characters appended to the short
\* name, a lone = after the short name among them); it resolves the flag to
\* true when it has no inline value or is a long token ending in =; it never
\* consumes the following token.
C15_InlineValueFails ==
    [][\A f \in FlagObjects(tree) :
          /\ BareTokenOf(f) => ResolvedTrue(f)
          /\ \A v \in InlineValues : InlineTokenOf(f, v) =>
                IF v = <<>> /\ argv[index + 1] = LongEq(tree.heap[f].long, v)
                THEN ResolvedTrue(f)
                ELSE ResolveFailed]_vars

\* run --active -bx: the first token resolved active to true, and the token
\* with characters after the short name failed
C15_Witness ==
    /\ pc = "done"
    /\ Tokens = <<S_run, Long(S_active), ShortInline(<<"b">>, S_x)>>
    /\ hist[Len(argv) - 1].role = "flag"
    /\ hist[Len(argv) - 1].flag = "active"
    /\ hist[Len(argv) - 1].value = VBool(TRUE)
    /\ outcome.kind = "error"
    /\ outcome.command = "run"
    /\ outcome.message = "Syntax error, this flag doesn't supports values"

(***************************************************************************)
(* C16: a value flag without a value                                       *)
(***************************************************************************)
S_level == <<"l","e","v","e","l">>
S_note  == <<"n","o","t","e">>

\* The tree of the tests with two more flags on run, whose defaults are the
\* number 0 and the empty string
DefaultsTree ==
    addFlag(addFlag(TestTree, "run", "level",
                    ValueFlag(S_level, NumberTypeValidator, VNum(0), S_level, <<"l">>)),
            "run", "note",
            ValueFlag(S_note, StringTypeValidator, VStr(<<>>), S_note, <<"e">>))

DefaultsPool ==
    {S_run, S_x, Long(S_level), Long(S_note), Long(S_optional), Long(S_name), Long(S_tag),
     Short(<<"l">>), Short(<<"o">>)}

MaxDefaultsTokens == 3

InitDefaults ==
    InitWith({DefaultsTree}, {"parse", "run"}, TokenArrays(DefaultsPool, MaxDefaultsTokens))

SpecDefaults == InitDefaults /\ [][Next]_vars

\* The last token of the array is at the cursor, and it names the value
\* based flag f of the active scope chain without an inline value
BareLastTokenOf(f) ==
    LET obj == tree.heap[f]
    IN  /\ AtToken
        /\ index + 1 = Len(argv)
        /\ isValueBased(obj)
        /\ \/ argv[index + 1] = Long(obj.long) /\ getLong(tree, command, obj.long) = f
           \/ /\ Len(obj.short) > 0
              /\ argv[index + 1] = Short(obj.short)
              /\ getShort(tree, command, obj.short) = f

\* C16: a value based flag given bare as the last token is recorded with
\* the null sentinel exactly when its default is neither null nor false, the
\* defaults 0 and the empty string included; otherwise the parse fails with
\* a ParserError that asks for an explicit value.
C16_BareFlagUsesDefault ==
    [][\A f \in FlagObjects(tree) :
          BareLastTokenOf(f) =>
              IF tree.heap[f].defaultValue \notin {VNull, VBool(FALSE)}
              THEN /\ outcome'.kind = "none"
                   /\ f \in DOMAIN LevelMap'
                   /\ LevelMap'[f] = VNull
              ELSE /\ outcome'.kind = "error"
                   /\ outcome'.message = "Flag with no default value, requires value"]_vars

(***************************************************************************)
(* C17: flag shaped tokens in the scan of an action                        *)
(***************************************************************************)
\* Tokens of names no scope knows, with and without a value, and tokens of
\* the number flag age with a valid value, an invalid value and no value
ScanPool ==
    {S_run, S_x, Long(S_zz), Short(<<"z">>), LongEq(S_zz, S_x),
     LongEq(S_age, S_x), LongEq(S_age, S_5), Long(S_age), Long(S_active)}

MaxScanTokens == 4

InitScan == InitWith({TestTree}, {"parse", "run"}, TokenArrays(ScanPool, MaxScanTokens))

SpecScan == InitScan /\ [][Next]_vars

\* The name of the flag shaped token tok is a key of the scope chain of cmd
Registered(t, cmd, tok) ==
    <<IF parseFlag(tok).isLong THEN "long" ELSE "short", parseFlag(tok).name>>
        \in ScopeKeys(t, cmd)

C17_Step ==
    (/\ pc = "action_scan"
     /\ index < Len(argv)
     /\ parseFlag(argv[index + 1]).isFlag) =>
        IF Registered(tree, command, argv[index + 1])
        THEN /\ positionals' = positionals
             /\ \/ /\ outcome'.kind = "error"
                   /\ outcome'.command = command
                   /\ pc' \in {"throw", "run", "done"}
                \/ /\ outcome'.kind = "none"
                   /\ hist'[index + 1].role = "flag"
        ELSE /\ positionals' = Append(positionals, argv[index + 1])
             /\ hist'[index + 1].role = "arg"
             /\ index' = index + 1
             /\ outcome' = outcome
             /\ pc' = pc

\* The declared parameters aside, an action fails only at a token of a
\* registered flag, whose value was invalid or missing
C17_Result ==
    (/\ ParseFailed
     /\ tree.cmds[outcome.command].kind = "action"
     /\ outcome.message \notin {"Missing required argument", "Invalid value"}) =>
        /\ outcome.index \in 1..Len(argv)
        /\ parseFlag(argv[outcome.index]).isFlag
        /\ Registered(tree, outcome.command, argv[outcome.index])
        /\ hist[outcome.index].role = "none"
        /\ outcome.message \in {"Flag with no default value, requires value",
                                "Incorrect type passed as value for flag",
                                "Syntax error, this flag doesn't supports values"}

\* C17: in the scan of an action, a flag shaped token whose name no scope of
\* the chain registers is appended as it is to the positionals, in token
\* order, and raises no error; a token whose name is registered is never
\* collected as a positional: it resolves, or the parse fails at it because
\* its value is invalid or missing.
C17_UnknownFlagIsPositional == [][C17_Step]_vars /\ []C17_Result

\* run --zz=x x --age=x: the unknown flag and x were collected in this
\* order, and the invalid number for age ended the parse
C17_Witness ==
    /\ pc = "done"
    /\ Tokens = <<S_run, LongEq(S_zz, S_x), S_x, LongEq(S_age, S_x)>>
    /\ positionals = <<LongEq(S_zz, S_x), S_x>>
    /\ outcome.kind = "error"
    /\ outcome.command = "run"
    /\ outcome.message = "Incorrect type passed as value for flag"

(***************************************************************************)
(* C18: what a parse leaves behind                                         *)
(***************************************************************************)
RepeatPool ==
    {S_run, S_config, S_copy, S_x, LongEq(S_tag, S_5), Long(S_active)}

MaxRepeatTokens == 3

InitRepeat == InitWith({TestTree}, {"parse", "run"}, TokenArrays(RepeatPool, MaxRepeatTokens))

NextRepeat == Next \/ parseAgain

SpecRepeat == InitRepeat /\ [][NextRepeat]_vars

C18_SameOutcomeByNewParser ==
    (pc = "done" /\ previous.done /\ previous.fresh) => outcome = previous.outcome

LoopPool ==
    {S_config, S_set, S_run, S_x, <<>>, LongEq(S_tag, S_5), Long(S_tag), Short(<<"v">>)}

MaxLoopTokens == 4

InitLoop == InitWith({TestTree}, {"parse", "run"}, TokenArrays(LoopPool, MaxLoopTokens))

SpecLoop == InitLoop /\ [][Next]_vars

\* An iteration of a loop that is followed by another moves the cursor
\* forward, and a recursive parse call consumes one subcommand token
C19_Step ==
    /\ (pc = "group_flags" /\ pc' = "group_flags") => index' > index
    /\ (pc = "action_scan" /\ pc' = "action_scan") => index' > index
    /\ Len(stack') > Len(stack) =>
          /\ Len(stack') = Len(stack) + 1
          /\ index' = index + 1
          /\ hist[index + 1].role = "none"
          /\ hist'[index + 1].role = "sub"

\* The suspended calls are no more than the subcommand tokens consumed
C19_Depth ==
    Len(stack) <= Cardinality({i \in 1..Len(argv) : hist[i].role = "sub"})

\* The steps that a position of the parser has before it at most, the
\* cursor and the suspended calls left aside
Rank(p) ==
    CASE p = "parse" -> 6
      [] p \in {"group_flags", "action_scan"} -> 5
      [] p \in {"group_sub", "action_args"} -> 4
      [] p \in {"return", "throw"} -> 2
      [] p = "run" -> 1
      [] OTHER -> 0

\* A bound on the steps left: the tokens not yet passed by the cursor (the
\* cursor can pass the end of the array by one), the position, and the
\* suspended calls
Measure == 8 * (Len(argv) + 1 - index) + Rank(pc) + Len(stack)

C19_Ended == pc = "done" /\ outcome.kind \in {"result", "error"}

\* The steps outside the two loops
OtherSteps ==
    \/ parse
    \/ parseGroupCommand_sub
    \/ parseActionCommand_args
    \/ parseGroupCommand_return
    \/ parseGroupCommand_catch
    \/ run

\* The parse has ended with a result or an error, or has a step to take: it
\* is in one of the two loops, whose every branch is a step, or another
\* step is enabled
C19_Progress ==
    /\ Measure \in Nat
    /\ pc = "done" => C19_Ended
    /\ pc \notin {"done", "group_flags", "action_scan"} => ENABLED OtherSteps

\* C19: every parse ends with a ParseResult or a ParserError: until then
\* there is a step to take, and every step lowers a natural number; the
\* cursor grows in every iteration of the flag loop of a group and of the
\* scan loop of an action, and every recursive parse call consumes a
\* subcommand token of its own.
C19_Terminates ==
    /\ [][Measure' < Measure /\ C19_Step]_vars
    /\ [](C19_Progress /\ C19_Depth)

\* config -v set x has been parsed to its end, two calls deep, with the
\* cursor at the end of the array
C19_Witness ==
    /\ C19_Ended
    /\ Tokens = <<S_config, Short(<<"v">>), S_set, S_x>>
    /\ outcome.kind = "result"
    /\ outcome.command = "set"
    /\ index = Len(argv)

(***************************************************************************)
(* C20: the scopes of flags.  Flags and aliases are registered, one at a   *)
(* time, in the scopes of a chain of three commands                        *)
(***************************************************************************)
S_one == <<"o","n","e">>
S_two == <<"t","w","o">>

\* Two flag objects that ask for the same long key, one with a short key
ScopeFlags ==
    ("one" :> ValueFlag(S_one, StringTypeValidator, VNull, S_tag, <<"t">>)) @@
    ("two" :> ValueFlag(S_two, StringTypeValidator, VNull, S_tag, NoString))

\* root > config > set, with the help flag that every command registers in
\* its own scope, and the two flag objects not yet registered
ScopesBase ==
    LET t0 == GroupCommand_create(EmptyTree, Root, S_dot)
        t1 == createGroup(t0, Root, "config", S_config)
        t2 == createAction(t1, "config", "set", S_set, <<>>)
    IN  NewFlagObject(NewFlagObject(t2, "one", ScopeFlags["one"]), "two", ScopeFlags["two"])

LongAliases == {S_tag, S_nm}

ShortAliases == {<<"t">>, <<"h">>}

\* The keys registered in the scopes of t, each counted in its scope
OwnKeys(t) ==
    UNION {{<<cmd, k>> : k \in DOMAIN t.cmds[cmd].flags.map} : cmd \in DOMAIN t.cmds}

MaxRegisteredKeys == 5

CanRegister ==
    /\ pc = "register"
    /\ Cardinality(OwnKeys(tree)) < Cardinality(OwnKeys(ScopesBase)) + MaxRegisteredKeys

InitScopes ==
    /\ tree = ScopesBase
    /\ entry = "parse"
    /\ argv = <<>>
    /\ index = 0
    /\ lastError = NoError
    /\ pc = "register"
    /\ command = Root
    /\ stack = <<>>
    /\ RESULT = EmptyFlags
    /\ positionals = <<>>
    /\ FLAGS_MAP = EmptyFlags
    /\ outcome = NoOutcome
    /\ console = NoConsole
    /\ hist = <<>>
    /\ previous = NoPrevious
    /\ calls = <<>>
    /\ OthersIdle

\* command.flags.add(flag)
registerFlag ==
    /\ CanRegister
    /\ \E cmd \in DOMAIN tree.cmds : \E flag \in DOMAIN ScopeFlags :
          tree' = addFlag(tree, cmd, flag, ScopeFlags[flag])
    /\ UNCHANGED <<entry, argv, index, lastError, pc, command, stack, RESULT,
                   positionals, FLAGS_MAP, outcome, console, hist, previous, calls, others>>

\* command.flags.addLongAlias(flag, long)
registerLongAlias ==
    /\ CanRegister
    /\ \E cmd \in DOMAIN tree.cmds : \E flag \in DOMAIN ScopeFlags : \E long \in LongAliases :
          tree' = addLongAlias(tree, cmd, flag, long)
    /\ UNCHANGED <<entry, argv, index, lastError, pc, command, stack, RESULT,
                   positionals, FLAGS_MAP, outcome, console, hist, previous, calls, others>>

\* command.flags.addShortAlias(flag, short)
registerShortAlias ==
    /\ CanRegister
    /\ \E cmd \in DOMAIN tree.cmds : \E flag \in DOMAIN ScopeFlags : \E short \in ShortAliases :
          tree' = addShortAlias(tree, cmd, flag, short)
    /\ UNCHANGED <<entry, argv, index, lastError, pc, command, stack, RESULT,
                   positionals, FLAGS_MAP, outcome, console, hist, previous, calls, others>>

NextScopes ==
    \/ registerFlag
    \/ registerLongAlias
    \/ registerShortAlias

SpecScopes == InitScopes /\ [][NextScopes]_vars

\* The keys that lookups are made with: registered ones and one that is not
LookupKeys ==
    {<<"long", S_tag>>, <<"long", S_nm>>, <<"long", S_help>>, <<"long", S_x>>,
     <<"short", <<"t">>>>, <<"short", <<"h">>>>, <<"short", <<"?">>>>, <<"short", S_x>>,
     <<"flag", S_one>>, <<"flag", S_two>>, <<"flag", S_help>>, <<"flag", S_x>>}

\* getLong, getShort or getByName of the scope of cmd, by the kind of key
Get(t, cmd, k) ==
    CASE k[1] = "long" -> getLong(t, cmd, k[2])
      [] k[1] = "short" -> getShort(t, cmd, k[2])
      [] OTHER -> getByName(t, cmd, k[2])

\* The command cmd and its ancestors, by the parent of each command
RECURSIVE PathToRoot(_, _)
PathToRoot(t, cmd) ==
    IF cmd = NoCommand THEN {} ELSE {cmd} \cup PathToRoot(t, t.cmds[cmd].parent)

\* The scope of cmd or of one of its ancestors below the command top has
\* the key k registered
ShadowedBelow(t, cmd, top, k) ==
    \E a \in PathToRoot(t, cmd) \ PathToRoot(t, top) : k \in DOMAIN t.cmds[a].flags.map

\* A registration in the scope of cmd that puts flag under the keys set: in
\* cmd and in every descendant that has none of its own between it and cmd
\* the keys now give flag; every other lookup in every scope, those of the
\* ancestors of cmd among them, gives what it gave before
LookupsAfter(cmd, flag, set) ==
    \A at \in DOMAIN tree.cmds : \A k \in LookupKeys :
        Get(tree', at, k) =
            IF k \in set /\ cmd \in PathToRoot(tree, at) /\ ~ShadowedBelow(tree, at, cmd, k)
            THEN flag
            ELSE Get(tree, at, k)

\* The keys that FlagsGroup.add registers for a flag object
KeysOf(obj) ==
    {<<"flag", obj.name>>}
        \cup (IF Len(obj.long) > 0 THEN {<<"long", obj.long>>} ELSE {})
        \cup (IF Len(obj.short) > 0 THEN {<<"short", obj.short>>} ELSE {})

C20_Step ==
    \A cmd \in DOMAIN tree.cmds : \A flag \in DOMAIN ScopeFlags :
        /\ tree' = addFlag(tree, cmd, flag, ScopeFlags[flag])
              => LookupsAfter(cmd, flag, KeysOf(ScopeFlags[flag]))
        /\ \A long \in LongAliases :
              tree' = addLongAlias(tree, cmd, flag, long)
                 => LookupsAfter(cmd, flag, {<<"flag", ScopeFlags[flag].name>>, <<"long", long>>})
        /\ \A short \in ShortAliases :
              tree' = addShortAlias(tree, cmd, flag, short)
                 => LookupsAfter(cmd, flag, {<<"flag", ScopeFlags[flag].name>>, <<"short", short>>})

\* A lookup gives null exactly when no scope on the way to the root has the
\* key, and else a flag that the nearest scope with the key has registered
C20_Nearest ==
    \A at \in DOMAIN tree.cmds : \A k \in LookupKeys :
        LET holders == {a \in PathToRoot(tree, at) : k \in DOMAIN tree.cmds[a].flags.map}
        IN  IF holders = {} THEN Get(tree, at, k) = NoFlag
            ELSE \E a \in holders :
                    /\ \A b \in holders : b \in PathToRoot(tree, a)
                    /\ Get(tree, at, k) = tree.cmds[a].flags.map[k]
                    /\ Get(tree, at, k) \in tree.cmds[a].flags.flags

\* C20: getLong, getShort and getByName of a scope give the flag that the
\* nearest scope on the parent chain has registered under the key, the
\* scope's own first, and null when none has; a registration in a scope
\* changes the lookups of that scope and of its descendants only, so the
\* flags of an ancestor stay visible from a descendant until the descendant
\* registers the same key.
C20_NearestScope == [][C20_Step]_vars /\ []C20_Nearest

\* The root registered flag one under the long key tag and config flag two:
\* the root still finds one, config and set find two, set still finds the
\* short key of one, and nobody finds the key x
C20_Witness ==
    /\ getLong(tree, Root, S_tag) = "one"
    /\ getLong(tree, "config", S_tag) = "two"
    /\ getLong(tree, "set", S_tag) = "two"
    /\ getShort(tree, "set", <<"t">>) = "one"
    /\ getByName(tree, "set", S_two) = "two"
    /\ getByName(tree, Root, S_two) = NoFlag
    /\ getLong(tree, "set", S_x) = NoFlag

(***************************************************************************)
(* C21: the order of the validator calls.  Parses of an action with a      *)
(* number flag and of an action with an integer parameter, with values     *)
(* that are and are not numbers                                            *)
(***************************************************************************)
CoercePool ==
    {S_run, S_repeat, S_5, S_a, LongEq(S_age, S_5), LongEq(S_age, S_a), Long(S_age),
     LongEq(S_tag, S_a)}

MaxCoerceTokens == 4

InitCoerce == InitWith({TestTree}, {"parse", "run"}, TokenArrays(CoercePool, MaxCoerceTokens))

SpecCoerce == InitCoerce /\ [][Next]_vars

\* The call at place i of the history is a coerce of a string that the same
\* validator was asked about before and found valid
ValidatedBefore(i) ==
    /\ calls[i].input.t = "str"
    /\ \E j \in 1..(i - 1) :
          /\ calls[j].op = "isValid"
          /\ calls[j].validator = calls[i].validator
          /\ calls[j].input = calls[i].input
          /\ calls[j].returned = VBool(TRUE)

\* C21: during any parse, coerce is called on a raw string only after
\* isValid of the same validator returned true for the same raw string, for
\* the values of flags and for positional arguments alike; coerce is never
\* reached with a value that was not validated or is absent.
C21_CoerceAfterIsValid ==
    \A i \in 1..Len(calls) : calls[i].op = "coerce" => ValidatedBefore(i)

\* A parse of repeat 5 --tag=a has finished: the string validator coerced
\* the value of the flag and the integer validator the positional, and a
\* parse of run --age=a made no coerce call
C21_Witness ==
    /\ pc = "done"
    /\ Tokens = <<S_repeat, S_5, LongEq(S_tag, S_a)>>
    /\ outcome.kind = "result"
    /\ CoerceCall(IntegerTypeValidator, VStr(S_5)) \in {calls[i] : i \in 1..Len(calls)}
    /\ CoerceCall(StringTypeValidator, VStr(S_a)) \in {calls[i] : i \in 1..Len(calls)}

(***************************************************************************)
(* C22: the enum validator.  A validator is constructed from a list of     *)
(* declared values, and isValid and coerce are called on it                *)
(***************************************************************************)
S_Red   == <<"R","e","d">>
S_red   == <<"r","e","d">>
S_green == <<"g","r","e","e","n">>

\* The lists of values a validator is declared with
MaxEnumValues == 3

DeclaredValues == TokenArrays({S_Red, S_red, S_green}, MaxEnumValues) \ {<<>>}

\* The raw strings given to isValid and coerce
RawInputs == {S_Red, S_red, S_green, <<"R","E","D">>, <<"x">>, <<>>}

MaxEnumCalls == 2

InitEnum == ParserIdle /\ OthersIdle

\* new StringEnumTypeValidator(values); an empty list makes the constructor
\* throw
newStringEnumTypeValidator ==
    /\ enum = NoValidator
    /\ \E values \in DeclaredValues :
          /\ Len(values) > 0
          /\ enum' = StringEnumTypeValidator(values)
    /\ UNCHANGED <<parserVars, calls, emitterVars, channelVars>>

\* validator.isValid(raw)
callIsValid ==
    /\ enum # NoValidator
    /\ Len(calls) < MaxEnumCalls
    /\ \E raw \in RawInputs : calls' = Append(calls, IsValidCall(enum, VStr(raw)))
    /\ UNCHANGED <<parserVars, enum, emitterVars, channelVars>>

\* validator.coerce(raw)
callCoerce ==
    /\ enum # NoValidator
    /\ Len(calls) < MaxEnumCalls
    /\ \E raw \in RawInputs : calls' = Append(calls, CoerceCall(enum, VStr(raw)))
    /\ UNCHANGED <<parserVars, enum, emitterVars, channelVars>>

NextEnum ==
    \/ newStringEnumTypeValidator
    \/ callIsValid
    \/ callCoerce

SpecEnum == InitEnum /\ [][NextEnum]_vars

\* C22: for an enum validator constructed from a non-empty list V,
\* coerce(raw) returns raw when isValid(raw) holds and otherwise the first
\* declared value V[0] exactly as it was declared, without raising an error.
C22_FirstDeclaredValue ==
    \A i \in 1..Len(calls) :
        (calls[i].op = "coerce" /\ calls[i].validator.name = "enum")
            => calls[i].returned =
                  IF isValid(calls[i].validator, calls[i].input.s) THEN calls[i].input
                  ELSE VStr(calls[i].validator.description[1])

(***************************************************************************)
(* C23: what CommandLine.run passes on to its caller                       *)
(***************************************************************************)
\* C23: CommandLine.run throws a ParserError to its caller (the promise it
\* returned rejects with it) whenever the parse fails or a value is found
\* invalid.
C23_RunThrowsParserError ==
    (entry = "run" /\ pc = "done" /\ outcome.kind = "error") => console.threw

(***************************************************************************)
(* EventEmitter (emitter.ts)                                               *)
(***************************************************************************)
\* EventEmitter.add(type, listener): the list of the type, made on first
\* use, gets the listener at its end
EventEmitter_add(tg, type, listener) ==
    IF type \in DOMAIN tg THEN [tg EXCEPT ![type] = Append(@, listener)]
    ELSE (type :> <<listener>>) @@ tg

\* Array.prototype.indexOf, 0-based, -1 when absent
indexOfListener(list, listener) ==
    IF \E k \in 1..Len(list) : list[k] = listener
    THEN (CHOOSE k \in 1..Len(list) :
            list[k] = listener /\ \A j \in 1..(k - 1) : list[j] # listener) - 1
    ELSE -1

\* list.splice(i, 1), i 0-based
splice(list, i) == SubSeq(list, 1, i) \o SubSeq(list, i + 2, Len(list))

\* EventEmitter.remove(type, listener): the first occurrence of the listener
\* is taken out of the list of the type
EventEmitter_remove(tg, type, listener) ==
    IF type \notin DOMAIN tg THEN tg
    ELSE LET i == indexOfListener(tg[type], listener)
         IN  IF i >= 0 THEN [tg EXCEPT ![type] = splice(@, i)] ELSE tg

\* The listeners added and not removed since, after an add and after a
\* remove
Registered_add(reg, type, listener) ==
    IF type \in DOMAIN reg THEN [reg EXCEPT ![type] = @ \cup {listener}]
    ELSE (type :> {listener}) @@ reg

Registered_remove(reg, type, listener) ==
    IF type \in DOMAIN reg THEN [reg EXCEPT ![type] = @ \ {listener}] ELSE reg

RegisteredFor(reg, type) == IF type \in DOMAIN reg THEN reg[type] ELSE {}

EventTypes == {"event1", "event2"}

Listeners == {"f", "g", "h"}

Payloads == {"p", "q"}

\* What the function of a listener does when it is called: nothing, or a
\* call of remove or of add on the emitter for the type being dispatched
Bodies ==
    {[op |-> "none", listener |-> "none"],
     [op |-> "remove", listener |-> "f"],
     [op |-> "remove", listener |-> "g"],
     [op |-> "add", listener |-> "h"]}

\* The listeners in all lists of the emitter
TargetSize(tg) == Cardinality(UNION {{<<type, k>> : k \in 1..Len(tg[type])} : type \in DOMAIN tg})

MaxListeners == 3

InitEmitter ==
    /\ ParserIdle
    /\ enum = NoValidator
    /\ target = NoTarget
    /\ bodies \in [Listeners -> Bodies]
    /\ loop = NoLoop
    /\ invoked = <<>>
    /\ registered = [type \in {} |-> {}]
    /\ ChannelIdle

\* emitter.add(type, listener), called from outside a dispatch
add ==
    /\ ~loop.active
    /\ TargetSize(target) < MaxListeners
    /\ \E type \in EventTypes : \E listener \in Listeners :
          /\ target' = EventEmitter_add(target, type, listener)
          /\ registered' = Registered_add(registered, type, listener)
    /\ loop' = NoLoop
    /\ invoked' = <<>>
    /\ UNCHANGED <<parserVars, calls, enum, channelVars, bodies>>

\* emitter.remove(type, listener), called from outside a dispatch
remove ==
    /\ ~loop.active
    /\ \E type \in EventTypes : \E listener \in Listeners :
          /\ target' = EventEmitter_remove(target, type, listener)
          /\ registered' = Registered_remove(registered, type, listener)
    /\ loop' = NoLoop
    /\ invoked' = <<>>
    /\ UNCHANGED <<parserVars, calls, enum, channelVars, bodies>>

\* emitter.dispatch(type, payload) up to the loop: a type without a list
\* returns at once
dispatch ==
    /\ ~loop.active
    /\ \E type \in EventTypes : \E payload \in Payloads :
          loop' = [active |-> type \in DOMAIN target, type |-> type, payload |-> payload,
                   i |-> 0,
                   began |-> IF type \in DOMAIN target THEN target[type] ELSE <<>>,
                   atStart |-> RegisteredFor(registered, type)]
    /\ invoked' = <<>>
    /\ UNCHANGED <<parserVars, calls, enum, channelVars, target, bodies, registered>>

\* One iteration of the loop of dispatch: func = list[i]; func(payload), with
\* what the function does to the emitter; i++
dispatch_call ==
    /\ loop.active
    /\ loop.i < Len(target[loop.type])
    /\ LET func == target[loop.type][loop.i + 1]
           body == bodies[func]
       IN  /\ invoked' = Append(invoked, [listener |-> func, payload |-> loop.payload])
           /\ CASE body.op = "remove" ->
                     /\ target' = EventEmitter_remove(target, loop.type, body.listener)
                     /\ registered' = Registered_remove(registered, loop.type, body.listener)
                [] body.op = "add" ->
                     /\ TargetSize(target) < MaxListeners
                     /\ target' = EventEmitter_add(target, loop.type, body.listener)
                     /\ registered' = Registered_add(registered, loop.type, body.listener)
                [] OTHER -> UNCHANGED <<target, registered>>
    /\ loop' = [loop EXCEPT !.i = @ + 1]
    /\ UNCHANGED <<parserVars, calls, enum, channelVars, bodies>>

\* The end of the loop of dispatch: i < list.length is false
dispatch_return ==
    /\ loop.active
    /\ loop.i >= Len(target[loop.type])
    /\ loop' = [loop EXCEPT !.active = FALSE]
    /\ UNCHANGED <<parserVars, calls, enum, channelVars, target, bodies, invoked, registered>>

NextEmitter ==
    \/ add
    \/ remove
    \/ dispatch
    \/ dispatch_call
    \/ dispatch_return

SpecEmitter == InitEmitter /\ [][NextEmitter]_vars

\* A dispatch has returned
Dispatched == ~loop.active /\ loop.type # "none"

InvokedListeners == {invoked[k].listener : k \in 1..Len(invoked)}

\* C24: after any sequence of add and remove calls, dispatch(type, payload)
\* invokes with that payload exactly the listeners that were added for that
\* type and not removed since, and invokes no listener that was removed or
\* that is registered for another type only.
C24_ExactlyTheRegistered ==
    Dispatched =>
        /\ \A k \in 1..Len(invoked) : invoked[k].payload = loop.payload
        /\ (loop.atStart \cap RegisteredFor(registered, loop.type)) \subseteq InvokedListeners
        /\ InvokedListeners \subseteq (loop.atStart \cup RegisteredFor(registered, loop.type))

\* C30: during a single dispatch, every listener that was registered for
\* the type when the dispatch began is invoked exactly once, in the order of
\* registration, even if a listener calls remove (on itself or on another
\* listener of that type) or add while the dispatch is running.
C30_AllThatWereRegistered ==
    Dispatched =>
        /\ Len(invoked) >= Len(loop.began)
        /\ \A k \in 1..Len(loop.began) : invoked[k].listener = loop.began[k]

(***************************************************************************)
(* TaskConcurrencyChannel (task-concurrency-channel.ts).  The tasks are    *)
(* numbered in the order of their push; the tracking promise of a task is  *)
(* known by the number of the task                                         *)
(***************************************************************************)
MaxTasks == 4

Concurrencies == {1, 2}

InitChannel ==
    /\ ParserIdle
    /\ enum = NoValidator
    /\ EmitterIdle
    /\ channel \in {TaskConcurrencyChannel(c) : c \in Concurrencies}
    /\ tasks = <<>>
    /\ pushing = Returned
    /\ awaiter = NoAwaiter

\* await channel.push(task), up to its return or to its await: the tracking
\* promise is made and added to the stack, and a stack that has reached the
\* concurrency makes push await Promise.any of the stack as it is now
push ==
    /\ pushing.state = "returned"
    /\ Len(tasks) < MaxTasks
    /\ LET promise == Len(tasks) + 1
           added   == channel.stack \cup {promise}
       IN  /\ tasks' = Append(tasks, [task |-> "pending", promise |-> "pending"])
           /\ channel' = [channel EXCEPT !.stack = added]
           /\ pushing' = IF Cardinality(added) >= channel.concurrency
                         THEN [state |-> "awaiting", any |-> added]
                         ELSE Returned
    /\ UNCHANGED <<parserVars, calls, enum, emitterVars, awaiter>>

\* A pushed task fulfils
fulfil ==
    /\ \E k \in 1..Len(tasks) :
          /\ tasks[k].task = "pending"
          /\ tasks' = [tasks EXCEPT ![k].task = "fulfilled"]
    /\ UNCHANGED <<parserVars, calls, enum, emitterVars, channel, pushing, awaiter>>

\* A pushed task rejects
reject ==
    /\ \E k \in 1..Len(tasks) :
          /\ tasks[k].task = "pending"
          /\ tasks' = [tasks EXCEPT ![k].task = "rejected"]
    /\ UNCHANGED <<parserVars, calls, enum, emitterVars, channel, pushing, awaiter>>

\* The reaction of the tracking promise to its settled task: the first
\* callback of then deletes the promise from the stack, the second one does
\* nothing; the tracking promise fulfils either way
then ==
    /\ \E k \in 1..Len(tasks) :
          /\ tasks[k].task # "pending"
          /\ tasks[k].promise = "pending"
          /\ tasks' = [tasks EXCEPT ![k].promise = "fulfilled"]
          /\ channel' = IF tasks[k].task = "fulfilled"
                        THEN [channel EXCEPT !.stack = @ \ {k}]
                        ELSE channel
    /\ UNCHANGED <<parserVars, calls, enum, emitterVars, pushing, awaiter>>

\* Promise.any resolves with the first fulfilled promise among those it was
\* given, and push returns
push_return ==
    /\ pushing.state = "awaiting"
    /\ \E k \in pushing.any : tasks[k].promise = "fulfilled"
    /\ pushing' = Returned
    /\ UNCHANGED <<parserVars, calls, enum, emitterVars, channel, tasks, awaiter>>

\* channel.getAwaiter(): Promise.all of the stack as it is now
getAwaiter ==
    /\ awaiter.state = "none"
    /\ awaiter' = [NoAwaiter EXCEPT !.state = "waiting", !.all = channel.stack,
                                    !.pushed = Len(tasks)]
    /\ UNCHANGED <<parserVars, calls, enum, emitterVars, channel, tasks, pushing>>

\* Promise.all resolves once every promise it was given has fulfilled; the
\* stack and the number of pushed tasks at that moment are kept for the
\* record
getAwaiter_resolve ==
    /\ awaiter.state = "waiting"
    /\ \A k \in awaiter.all : tasks[k].promise = "fulfilled"
    /\ awaiter' = [awaiter EXCEPT !.state = "resolved", !.stack = channel.stack,
                                  !.pushedThen = Len(tasks)]
    /\ UNCHANGED <<parserVars, calls, enum, emitterVars, channel, tasks, pushing>>

NextChannel ==
    \/ push
    \/ fulfil
    \/ reject
    \/ then
    \/ push_return
    \/ getAwaiter
    \/ getAwaiter_resolve

SpecChannel == InitChannel /\ [][NextChannel]_vars

\* The pushed tasks that have not settled
Unsettled == {k \in 1..Len(tasks) : tasks[k].task = "pending"}

\* C25: with every push awaited before the next push is issued, the number
\* of pushed tasks that have not settled never exceeds the concurrency,
\* whatever mix of tasks fulfil and reject: push returns only once fewer
\* than concurrency tasks remain unsettled.
C25_AtMostConcurrency ==
    /\ Cardinality(Unsettled) <= channel.concurrency
    /\ pushing.state = "returned" => Cardinality(Unsettled) < channel.concurrency

\* C26: when the promise of getAwaiter resolves the stack is empty: every
\* task pushed before the call has settled, fulfilled or rejected, and its
\* tracking promise has been removed from the stack.  The stack is looked at
\* as it is when the promise resolves; it is required to be empty when no
\* task was pushed after the call, and else to hold none of the tasks pushed
\* before the call.
C26_EmptyWhenResolved ==
    awaiter.state = "resolved" =>
        /\ \A k \in 1..awaiter.pushed : tasks[k].task # "pending"
        /\ awaiter.stack \cap 1..awaiter.pushed = {}
        /\ awaiter.pushedThen = awaiter.pushed => awaiter.stack = {}

(***************************************************************************)
(* C27: a flag in the flag loop of a group that no scope of the group      *)
(* knows                                                                   *)
(***************************************************************************)
\* Subcommand names, flags of the root and of config, and flags known to
\* the action run only or to no command
GroupFlagsPool ==
    {S_config, S_set, S_run, LongEq(S_tag, S_5), Short(<<"v">>), Long(S_age),
     LongEq(S_age, S_5), Long(S_zz)}

MaxGroupFlagsTokens == 4

InitGroupFlags ==
    InitWith({TestTree}, {"parse", "run"}, TokenArrays(GroupFlagsPool, MaxGroupFlagsTokens))

SpecGroupFlags == InitGroupFlags /\ [][Next]_vars

\* The token is shaped like a flag, and neither the scope of cmd nor that of
\* one of its ancestors has its name as a key of the token's kind
UnknownFlagToken(t, cmd, tok) ==
    /\ Len(tok) >= 2
    /\ tok[1] = "-"
    /\ LET flag == parseFlag(tok)
           key  == <<IF flag.isLong THEN "long" ELSE "short", flag.name>>
       IN  \A a \in PathToRoot(t, cmd) : key \notin DOMAIN t.cmds[a].flags.map

\* A later token names a subcommand of cmd whose scope has the flag of the
\* token
KnownToSubcommand(t, cmd, i) ==
    \E j \in (i + 1)..Len(argv) :
        /\ argv[j] \in DOMAIN t.cmds[cmd].subcommands
        /\ Registered(t, t.cmds[cmd].subcommands[argv[j]], argv[i])

C27_Step ==
    (/\ pc = "group_flags"
     /\ index < Len(argv)
     /\ UnknownFlagToken(tree, command, argv[index + 1])) =>
        /\ outcome'.kind = "error"
        /\ outcome'.command = command
        /\ outcome'.index = index
        /\ outcome'.hasSet
        /\ outcome'.set = Keys(RESULT)
        /\ outcome'.set = ResolvedAtLevel(command)
        /\ pc' \in {"throw", "run", "done"}
        /\ index' = index
        /\ hist' = hist
        /\ command' = command

C27_Result ==
    (ParseFailed /\ outcome.message = "Failed to resolve tag with name") =>
        /\ tree.cmds[outcome.command].kind = "group"
        /\ outcome.index \in StartIndex(entry)..(Len(argv) - 1)
        /\ UnknownFlagToken(tree, outcome.command, argv[outcome.index + 1])
        /\ hist[outcome.index + 1].role = "none"
        /\ ResolvedAtLevel(outcome.command) \subseteq outcome.set
        /\ \A i \in 1..Len(argv) : hist[i].role = "sub" => i <= outcome.index

\* C27: in the flag loop of a group, a token shaped like a flag whose name
\* is registered nowhere in the scope chain of the group aborts the parse
\* with a ParserError that has the group as command and the flags resolved
\* at that level so far as flags, even when the subcommand named later in
\* the tokens registers the flag; the token is never skipped, never taken as
\* the name of the subcommand and never left to the scope of the subcommand.
C27_UnknownFlagInGroup == [][C27_Step]_vars /\ []C27_Result

\* --tag=5 --age run: the root resolved tag, no scope of the root knows age
\* though run does, and the parse failed at the root with the flag tag
C27_Witness ==
    /\ pc = "done"
    /\ entry = "parse"
    /\ Tokens = <<LongEq(S_tag, S_5), Long(S_age), S_run>>
    /\ KnownToSubcommand(tree, Root, 2)
    /\ outcome = ParserError(Root, "Failed to resolve tag with name", 1, TRUE, {"tag"})
    /\ hist[2].role = "none"
    /\ hist[3].role = "none"

(***************************************************************************)
(* C28: what became of every token                                         *)
(***************************************************************************)
\* C28: in every successful parse that ends in an action, each token from
\* the start index to the end of the token array is accounted for once and
\* in order: as the name of a subcommand that was entered, as a resolved
\* flag, as the value taken by the flag token right before it, or as an
\* element of args; no token, the empty string among them, is dropped.
C28_EveryTokenAccounted ==
    (/\ pc \in {"run", "done"}
     /\ outcome.kind = "result"
     /\ tree.cmds[outcome.command].kind = "action") =>
        /\ \A i \in (StartIndex(entry) + 1)..Len(argv) :
              /\ hist[i].role \in {"sub", "flag", "value", "arg"}
              /\ hist[i].role = "value" =>
                    /\ i > StartIndex(entry) + 1
                    /\ hist[i - 1].role = "flag"
                    /\ hist[i - 1].flag = hist[i].flag
        /\ Len(outcome.args) >= Len(CollectedTokens)

(***************************************************************************)
(* C29: the range of the cursor.  The action copy, which has a required    *)
(* parameter, gets a value flag with a default                             *)
(***************************************************************************)
S_mode == <<"m","o","d","e">>

BoundsTree ==
    addFlag(TestTree, "copy", "mode",
            ValueFlag(S_mode, StringTypeValidator, VStr(S_dv), S_mode, <<"m">>))

BoundsPool ==
    {S_copy, S_run, S_a, Long(S_mode), LongEq(S_mode, S_a), Long(S_optional), LongEq(S_tag, S_5)}

MaxBoundsTokens == 3

InitBounds == InitWith({BoundsTree}, {"parse", "run"}, TokenArrays(BoundsPool, MaxBoundsTokens))

SpecBounds == InitBounds /\ [][Next]_vars

\* C29: at every point of a parse the cursor lies between the start index
\* and the length of the token array, both included, so the index that a
\* ParserError carries never exceeds the length of the token array, also
\* when a value flag with a default is given bare as the last token.
C29_CursorInRange ==
    /\ index \in StartIndex(entry)..Len(argv)
    /\ outcome.kind = "error" => outcome.index \in StartIndex(entry)..Len(argv)

====
